---- MODULE Spec2Model ----
(***************************************************************************)
(* Connection-lifecycle core of the database workbench backend             *)
(* (src-tauri/src/backend/pool.rs): PoolManager, ConnectionPool,           *)
(* ConnectionState, KeepaliveManager and the with_connection reconnect     *)
(* engine, modelled at the granularity of the DashMap entry guards: every  *)
(* block of the source that holds one guard (or performs one map           *)
(* operation) is one atomic step, and client threads and keepalive tasks   *)
(* interleave between those steps.                                         *)
(***************************************************************************)
EXTENDS Integers, Sequences, FiniteSets, TLC

\* ---------------------------------------------------------------- bounds
MaxPools == 2          \* pool ids handed out by POOL_ID_COUNTER in a run
MaxConns == 2          \* handle ids handed out by CONN_ID_COUNTER in a run
MaxNest == 1           \* cap of the in_transaction / temporary_tables counters

\* ------------------------------------------------------ program constants
max_pool_size == 10
min_idle == 2
FirstId == 1

Threads == {"t1", "t2"}   \* the client threads
PoolIds == 1..MaxPools
ConnIds == 1..MaxConns

NoDb == "none"                       \* Option<String>::None for a database
Databases == {"a", "b"}
DbOpt == Databases \cup {NoDb}
NoneStr == <<"<none>">>              \* Option<String>::None for a profile field
NoState == [none |-> TRUE]
NoPool == [none |-> TRUE]

VARIABLES
    POOL_ID_COUNTER,   \* next pool id
    CONN_ID_COUNTER,   \* next handle id
    pools,             \* PoolManager.pools: the ids registered
    poolObj,           \* the ConnectionPool objects ever built (an Arc may outlive the map entry),
                       \* each with the call that built it (`via`)
    in_use,            \* ConnectionPool.in_use: in_use[p][h]
    connection_key_to_pool_id, \* PoolManager.connection_key_to_pool_id (0: no entry)
    tasks,             \* KeepaliveManager.tasks: the handle ids with a task entry
    ka,                \* the spawned keepalive task of each handle
    th,                \* each client thread's position and locals
    released,          \* history: handles for which release_connection returned Ok
    issued,            \* history: the ids allocated by get_connection, in allocation order
    ret                \* the call that returned in the step just taken, with its result (NoCall: none did)

poolVars == <<POOL_ID_COUNTER, CONN_ID_COUNTER, pools, poolObj, in_use,
              connection_key_to_pool_id, tasks, ka, th, released, issued, ret>>
vars == <<poolVars>>

\* ------------------------------------------------------------- profiles
DigitChars == <<"0", "1", "2", "3", "4", "5", "6", "7", "8", "9">>

RECURSIVE Dec(_)
\* format!("{}", port): the decimal digits of a number
Dec(n) == IF n < 10 THEN <<DigitChars[n + 1]>>
          ELSE Dec(n \div 10) \o <<DigitChars[(n % 10) + 1]>>

UnwrapOrEmpty(s) == IF s = NoneStr THEN <<>> ELSE s

Profile(user, pass, db, auto) ==
    [host |-> <<"h">>, port |-> 3306, username |-> user, password |-> pass,
     ssl_mode |-> NoneStr, ssl_ca_path |-> NoneStr,
     database |-> db, auto_reconnect |-> auto]

Profiles ==
    { Profile(<<"u">>, <<"p">>, "a", TRUE),
      Profile(<<"u">>, <<"p">>, NoDb, FALSE),
      Profile(<<"v">>, <<"p">>, "b", FALSE) }

\* PoolConfig::from_profile: the fields of the profile the pool keeps
from_profile(profile) ==
    [host |-> profile.host, port |-> profile.port, username |-> profile.username,
     password |-> profile.password, ssl_mode |-> profile.ssl_mode,
     ssl_ca_path |-> profile.ssl_ca_path, database |-> profile.database,
     current_database |-> profile.database,
     auto_reconnect |-> profile.auto_reconnect]

\* PoolConfig::connection_key: "{}:{}:{}:{}:{}:{}"
connection_key(config) ==
    config.host \o <<":">> \o Dec(config.port) \o <<":">> \o config.username \o <<":">>
      \o config.password \o <<":">> \o UnwrapOrEmpty(config.ssl_mode) \o <<":">>
      \o UnwrapOrEmpty(config.ssl_ca_path)

\* what the OptsBuilder of ConnectionPool::new is given of the configuration
\* to reach and log in to the server: the fields of the fingerprint
Fingerprint(config) ==
    [host |-> config.host, port |-> config.port, username |-> config.username,
     password |-> config.password, ssl_mode |-> UnwrapOrEmpty(config.ssl_mode),
     ssl_ca_path |-> UnwrapOrEmpty(config.ssl_ca_path)]

\* ------------------------------------------------------ connection state
\* a raw connection just opened by MysqlManager::create: its session database is
\* the one the session-init list selects (USE `<current_database>`)
RawConn(db) == [db |-> db, alive |-> TRUE]

\* ConnectionState::new
NewState(conn, current_database, auto_reconnect) ==
    [conn |-> conn, current_database |-> current_database, use_count |-> 0,
     in_transaction |-> 0, has_temporary_tables |-> 0, auto_reconnect |-> auto_reconnect]

\* a safety gate that does not look at auto_reconnect
GateIgnoringAutoReconnect(s) ==
    IF s.in_transaction > 0 THEN <<FALSE, [kind |-> "transaction", n |-> s.in_transaction]>>
    ELSE IF s.has_temporary_tables > 0
         THEN <<FALSE, [kind |-> "temporary_tables", n |-> s.has_temporary_tables]>>
    ELSE <<TRUE, [kind |-> "none", n |-> 0]>>

\* ConnectionState::can_safely_reconnect: <<can, reason>>
can_safely_reconnect(s) ==
    IF ~s.auto_reconnect THEN <<FALSE, [kind |-> "disabled", n |-> 0]>>
    ELSE IF s.in_transaction > 0 THEN <<FALSE, [kind |-> "transaction", n |-> s.in_transaction]>>
    ELSE IF s.has_temporary_tables > 0
         THEN <<FALSE, [kind |-> "temporary_tables", n |-> s.has_temporary_tables]>>
    ELSE <<TRUE, [kind |-> "none", n |-> 0]>>

\* ConnectionState::record_use
record_use(s) == [s EXCEPT !.use_count = @ + 1]

\* is_connection_lost_error on the driver's outcomes: "dead" is a dropped socket
\* ("server has gone away"), "lostlike" a server error whose text matches the
\* predicate while the socket is intact ("Lock wait timeout exceeded"), "other"
\* any error that does not match.
is_connection_lost_error(outcome) == outcome \in {"dead", "lostlike"}

\* what SELECT 1 can answer on a raw connection
ProbeOutcomes(conn) == IF conn.alive THEN {"ok", "other", "dead"} ELSE {"dead"}
\* what the caller's statement can answer on a raw connection
ActionOutcomes(conn) == IF conn.alive THEN {"ok", "other", "lostlike", "dead"} ELSE {"dead"}

\* the raw connection after a driver call with that outcome
AfterCall(conn, outcome) == IF outcome = "dead" THEN [conn EXCEPT !.alive = FALSE] ELSE conn

\* the statements a caller sends: one that leaves the session database alone, or USE <db>
Sqls == {"plain", "use_b"}
SqlDb(sql) == CASE sql = "use_a" -> "a" [] sql = "use_b" -> "b" [] OTHER -> NoDb
AfterSql(conn, sql) == IF SqlDb(sql) = NoDb THEN conn ELSE [conn EXCEPT !.db = SqlDb(sql)]

\* ------------------------------------------------------------ the pool
\* a counter that hands out the same value again
SameAgain(counter) == counter

\* AtomicU64::fetch_add(1, SeqCst): the counter after the call (the call returns
\* the value before)
fetch_add(counter) == counter + 1

Keys == { connection_key(from_profile(pr)) : pr \in Profiles }

NoReason == [kind |-> "none", n |-> 0]
NoProfile == [none |-> TRUE]
\* a client thread between calls. Besides the locals of the call in progress the
\* record keeps what the call has seen: `lostTx`, the handle's in_transaction
\* counter at its latest connection-lost error (NoLost: none yet), and `prot`,
\* whether the state its in_use.remove took away had a counter above zero.
NoLost == -1
Idle == [pc |-> "idle", op |-> "none", pool |-> 0, conn |-> 0, sql |-> "plain", db |-> NoDb,
         can |-> FALSE, reason |-> NoReason, calls |-> 0, acq |-> 0, after |-> FALSE,
         lostTx |-> NoLost, prot |-> FALSE, prof |-> NoProfile, keys |-> {}]
NoTask == [st |-> "none", pool |-> 0]
NoCall == [op |-> "none", pool |-> 0, conn |-> 0, sql |-> "plain", res |-> "none", reason |-> NoReason,
           calls |-> 0, acq |-> 0, after |-> FALSE, lostTx |-> NoLost]

Registered(p, h) == in_use[p][h] # NoState
CheckedOut(p) == Cardinality({h \in ConnIds : Registered(p, h)})

\* a dropped deadpool Object goes back to the reservoir, unless the pool is closed.
\* A connection already found dead fails MysqlManager::recycle at the next
\* timeout_get and is discarded there without being handed out: the reservoir
\* of the model holds only the connections not yet known to be dead.
PutBack(pool, conn) ==
    IF pool.closed \/ ~conn.alive THEN pool ELSE [pool EXCEPT !.idle = Append(@, conn)]

RECURSIVE AcquireFrom(_, _, _)
\* Pool::timeout_get: the reservoir is tried front first, MysqlManager::recycle
\* (SELECT 1) decides whether an idle connection is handed out or discarded (a
\* connection can have died while idle), and MysqlManager::create opens a new one
\* when none is left; `canCreate` says whether a slot and a reachable server exist.
AcquireFrom(idle, fresh, canCreate) ==
    IF idle = <<>>
    THEN {[ok |-> FALSE, conn |-> fresh, idle |-> <<>>]}
         \cup (IF canCreate THEN {[ok |-> TRUE, conn |-> fresh, idle |-> <<>>]} ELSE {})
    ELSE (IF Head(idle).alive
          THEN {[ok |-> TRUE, conn |-> Head(idle), idle |-> Tail(idle)]}
          ELSE {})
         \cup AcquireFrom(Tail(idle), fresh, canCreate)

timeout_get(p) ==
    LET pool == poolObj[p]
        fresh == RawConn(pool.db)
    IN  IF pool.closed
        THEN {[ok |-> FALSE, conn |-> fresh, idle |-> <<>>]}
        ELSE AcquireFrom(pool.idle, fresh, CheckedOut(p) < max_pool_size)

\* the record of a completed call of a thread whose locals are `me`
Done(me, res, reason) ==
    [op |-> me.op, pool |-> me.pool, conn |-> me.conn, sql |-> me.sql, res |-> res,
     reason |-> reason, calls |-> me.calls, acq |-> me.acq, after |-> me.after,
     lostTx |-> me.lostTx]

FinishAs(t, me, res, reason) ==
    /\ th' = [th EXCEPT ![t] = Idle]
    /\ ret' = Done(me, res, reason)

Finish(t, res, reason) == FinishAs(t, th[t], res, reason)

\* KeepaliveManager::stop: the entry is removed and the task aborted; a task
\* waiting in ticker.tick() is cancelled at once, one in the middle of a tick
\* runs on to the end of that tick
StopTask(k, h) == IF h \in tasks /\ k.st = "waiting" THEN [k EXCEPT !.st = "dead"] ELSE k

\* ------------------------------------------------------------------ Init
Init ==
    /\ POOL_ID_COUNTER = FirstId
    /\ CONN_ID_COUNTER = FirstId
    /\ pools = {}
    /\ poolObj = [p \in PoolIds |-> NoPool]
    /\ in_use = [p \in PoolIds |-> [h \in ConnIds |-> NoState]]
    /\ connection_key_to_pool_id = [k \in Keys |-> 0]
    /\ tasks = {}
    /\ ka = [h \in ConnIds |-> NoTask]
    /\ th = [t \in Threads |-> Idle]
    /\ released = {}
    /\ issued = <<>>
    /\ ret = NoCall

\* ---------------------------------------------------------- PoolManager
\* PoolManager::create_pool, first half: the id is taken, ConnectionPool::new
\* builds the pool and warms min_idle connections (which go back to the
\* reservoir), and the pool is entered in `pools`
BuildPool(t, prof, op) ==
    LET id == POOL_ID_COUNTER
        cfg == from_profile(prof)
        me == [th[t] EXCEPT !.op = op, !.prof = prof, !.pool = id]
    IN  /\ id <= MaxPools
        /\ POOL_ID_COUNTER' = fetch_add(POOL_ID_COUNTER)
        /\ \/ /\ poolObj' = [poolObj EXCEPT ![id] =
                    [key |-> connection_key(cfg), opts |-> Fingerprint(cfg),
                     auto_reconnect |-> cfg.auto_reconnect,
                     db |-> cfg.current_database, closed |-> FALSE, via |-> op,
                     idle |-> [i \in 1..min_idle |-> RawConn(cfg.current_database)]]]
              /\ pools' = pools \cup {id}
              /\ th' = [th EXCEPT ![t] = [me EXCEPT !.pc = "create_register"]]
              /\ ret' = NoCall
           \/ \* "Failed to warm connection": the id is spent, nothing is registered
              /\ th' = [th EXCEPT ![t] = Idle]
              /\ ret' = [NoCall EXCEPT !.op = op, !.res = "CreateFailed"]
              /\ UNCHANGED <<poolObj, pools>>
        /\ UNCHANGED <<CONN_ID_COUNTER, in_use, connection_key_to_pool_id, tasks, ka,
                       released, issued>>

\* create_pool(profile)
CreatePool(t, prof) ==
    /\ th[t].pc = "idle"
    /\ BuildPool(t, prof, "create_pool")

\* PoolManager::create_pool, second half: the fingerprint is pointed at the new pool
CreatePoolRegister(t) ==
    /\ th[t].pc = "create_register"
    /\ connection_key_to_pool_id' =
          [connection_key_to_pool_id EXCEPT ![connection_key(from_profile(th[t].prof))] = th[t].pool]
    /\ Finish(t, "Ok", NoReason)
    /\ UNCHANGED <<POOL_ID_COUNTER, CONN_ID_COUNTER, pools, poolObj, in_use, tasks, ka,
                   released, issued>>

\* PoolManager::get_or_create_pool: the lookup
GetOrCreatePool(t, prof) ==
    LET key == connection_key(from_profile(prof))
        pool_id == connection_key_to_pool_id[key]
    IN  /\ th[t].pc = "idle"
        /\ IF pool_id # 0 /\ pool_id \in pools
           THEN /\ th' = [th EXCEPT ![t] = Idle]
                /\ ret' = [NoCall EXCEPT !.op = "get_or_create_pool", !.pool = pool_id, !.res = "Ok"]
           ELSE /\ th' = [th EXCEPT ![t] = [Idle EXCEPT !.pc = "goc_create",
                                             !.op = "get_or_create_pool", !.prof = prof]]
                /\ ret' = NoCall
        /\ UNCHANGED <<POOL_ID_COUNTER, CONN_ID_COUNTER, pools, poolObj, in_use,
                       connection_key_to_pool_id, tasks, ka, released, issued>>

\* PoolManager::get_or_create_pool: the miss falls through to create_pool
GetOrCreatePoolCreate(t) ==
    /\ th[t].pc = "goc_create"
    /\ BuildPool(t, th[t].prof, "get_or_create_pool")

\* close_pool(pool_id), first half: the keepalive tasks of the handles found in
\* in_use are stopped
ClosePool(t, p) ==
    LET ids == IF p \in pools THEN {h \in ConnIds : Registered(p, h)} ELSE {}
    IN  /\ th[t].pc = "idle"
        /\ tasks' = tasks \ ids
        /\ ka' = [h \in ConnIds |-> IF h \in ids THEN StopTask(ka[h], h) ELSE ka[h]]
        /\ th' = [th EXCEPT ![t] = [Idle EXCEPT !.pc = "close_remove", !.op = "close_pool", !.pool = p]]
        /\ UNCHANGED <<POOL_ID_COUNTER, CONN_ID_COUNTER, pools, poolObj, in_use,
                       connection_key_to_pool_id, released, issued>>
    /\ ret' = NoCall

\* PoolManager::close_pool and ConnectionPool::close
ClosePoolRemove(t) ==
    LET p == th[t].pool
    IN  /\ th[t].pc = "close_remove"
        /\ IF p \in pools
           THEN /\ pools' = pools \ {p}
                /\ in_use' = [in_use EXCEPT ![p] = [h \in ConnIds |-> NoState]]
                /\ poolObj' = [poolObj EXCEPT ![p].idle = <<>>, ![p].closed = TRUE]
           ELSE UNCHANGED <<pools, in_use, poolObj>>
        /\ Finish(t, "Ok", NoReason)
        /\ UNCHANGED <<POOL_ID_COUNTER, CONN_ID_COUNTER, connection_key_to_pool_id,
                       tasks, ka, released, issued>>

\* close_all_pools(), first step: KeepaliveManager::stop_all aborts every task
\* found in `tasks`
CloseAllPools(t) ==
    /\ th[t].pc = "idle"
    /\ ka' = [h \in ConnIds |-> StopTask(ka[h], h)]
    /\ th' = [th EXCEPT ![t] = [Idle EXCEPT !.pc = "closeall_clear", !.op = "close_all_pools"]]
    /\ ret' = NoCall
    /\ UNCHANGED <<POOL_ID_COUNTER, CONN_ID_COUNTER, pools, poolObj, in_use,
                   connection_key_to_pool_id, tasks, released, issued>>

\* KeepaliveManager::stop_all, second step: the lock is taken again and `tasks`
\* cleared, whatever was entered in between
CloseAllClear(t) ==
    /\ th[t].pc = "closeall_clear"
    /\ tasks' = {}
    /\ th' = [th EXCEPT ![t].pc = "closeall_keys"]
    /\ ret' = NoCall
    /\ UNCHANGED <<POOL_ID_COUNTER, CONN_ID_COUNTER, pools, poolObj, in_use,
                   connection_key_to_pool_id, ka, released, issued>>

\* PoolManager::close_all: the keys of `pools` are collected
CloseAllKeys(t) ==
    /\ th[t].pc = "closeall_keys"
    /\ th' = [th EXCEPT ![t].pc = "closeall_close", ![t].keys = pools]
    /\ ret' = NoCall
    /\ UNCHANGED <<POOL_ID_COUNTER, CONN_ID_COUNTER, pools, poolObj, in_use,
                   connection_key_to_pool_id, tasks, ka, released, issued>>

\* PoolManager::close_all: close_pool(key) for the collected keys, in the order
\* the map's iterator gave them; the call returns when none is left
CloseAllClose(t) ==
    /\ th[t].pc = "closeall_close"
    /\ IF th[t].keys = {}
       THEN /\ Finish(t, "Ok", NoReason)
            /\ UNCHANGED <<pools, in_use, poolObj>>
       ELSE \E p \in th[t].keys :
              /\ IF p \in pools
                 THEN /\ pools' = pools \ {p}
                      /\ in_use' = [in_use EXCEPT ![p] = [h \in ConnIds |-> NoState]]
                      /\ poolObj' = [poolObj EXCEPT ![p].idle = <<>>, ![p].closed = TRUE]
                 ELSE UNCHANGED <<pools, in_use, poolObj>>
              /\ th' = [th EXCEPT ![t].keys = @ \ {p}]
              /\ ret' = NoCall
    /\ UNCHANGED <<POOL_ID_COUNTER, CONN_ID_COUNTER, connection_key_to_pool_id,
                   tasks, ka, released, issued>>

\* ------------------------------------------------- handles of a pool
PoolUnchanged == UNCHANGED <<POOL_ID_COUNTER, pools, connection_key_to_pool_id>>

\* get_connection(pool_id, initial_database), first half:
\* ConnectionPool::get_connection
GetConnection(t, p, initial_database) ==
    /\ th[t].pc = "idle"
    /\ CONN_ID_COUNTER <= MaxConns
    /\ LET me == [Idle EXCEPT !.op = "get_connection", !.pool = p]
       IN  IF p \notin pools
           THEN /\ th' = [th EXCEPT ![t] = Idle]
                /\ ret' = [NoCall EXCEPT !.op = "get_connection", !.pool = p, !.res = "PoolNotFound"]
                /\ UNCHANGED <<CONN_ID_COUNTER, poolObj, in_use, issued>>
           ELSE \E o \in timeout_get(p) :
                  IF ~o.ok
                  THEN /\ poolObj' = [poolObj EXCEPT ![p].idle = o.idle]
                       /\ th' = [th EXCEPT ![t] = Idle]
                       /\ ret' = [NoCall EXCEPT !.op = "get_connection", !.pool = p, !.res = "GetFailed"]
                       /\ UNCHANGED <<CONN_ID_COUNTER, in_use, issued>>
                  ELSE LET conn_id == CONN_ID_COUNTER
                       IN  /\ CONN_ID_COUNTER' = fetch_add(CONN_ID_COUNTER)
                           /\ poolObj' = [poolObj EXCEPT ![p].idle = o.idle]
                           /\ in_use' = [in_use EXCEPT ![p][conn_id] =
                                 NewState(o.conn, initial_database, poolObj[p].auto_reconnect)]
                           /\ issued' = Append(issued, conn_id)
                           /\ th' = [th EXCEPT ![t] = [me EXCEPT !.pc = "get_keepalive", !.conn = conn_id]]
                           /\ ret' = NoCall
    /\ PoolUnchanged
    /\ UNCHANGED <<tasks, ka, released>>

\* get_connection, second half: KEEPALIVE_MANAGER.start(pool_id, conn_id, None)
GetConnectionKeepalive(t) ==
    LET h == th[t].conn
    IN  /\ th[t].pc = "get_keepalive"
        /\ ka' = [ka EXCEPT ![h] = [st |-> "waiting", pool |-> th[t].pool]]
        /\ tasks' = tasks \cup {h}
        /\ Finish(t, "Ok", NoReason)
        /\ PoolUnchanged
        /\ UNCHANGED <<CONN_ID_COUNTER, poolObj, in_use, released, issued>>

\* set_connection_database(pool_id, conn_id, database)
SetConnectionDatabase(t, p, h, database) ==
    /\ th[t].pc = "idle"
    /\ LET res == IF p \notin pools THEN "PoolNotFound"
                  ELSE IF ~Registered(p, h) THEN "NotFound" ELSE "Ok"
       IN  /\ in_use' = IF res = "Ok" THEN [in_use EXCEPT ![p][h].current_database = database]
                        ELSE in_use
           /\ ret' = [NoCall EXCEPT !.op = "set_connection_database", !.pool = p, !.conn = h,
                                    !.res = res, !.after = (h \in released)]
    /\ PoolUnchanged
    /\ UNCHANGED <<CONN_ID_COUNTER, poolObj, tasks, ka, th, released, issued>>

\* release_connection(pool_id, conn_id): the keepalive task is stopped first, then
\* ConnectionPool::release_connection drops the state (its raw connection goes
\* back to the reservoir)
ReleaseConnection(t, p, h) ==
    /\ th[t].pc = "idle"
    /\ tasks' = tasks \ {h}
    /\ ka' = [ka EXCEPT ![h] = StopTask(@, h)]
    /\ LET res == IF p \notin pools THEN "PoolNotFound"
                  ELSE IF ~Registered(p, h) THEN "NotFound" ELSE "Ok"
       IN  /\ IF res = "Ok"
              THEN /\ in_use' = [in_use EXCEPT ![p][h] = NoState]
                   /\ poolObj' = [poolObj EXCEPT ![p] = PutBack(@, in_use[p][h].conn)]
                   /\ released' = released \cup {h}
              ELSE UNCHANGED <<in_use, poolObj, released>>
           /\ ret' = [NoCall EXCEPT !.op = "release_connection", !.pool = p, !.conn = h,
                                    !.res = res, !.after = (h \in released)]
    /\ PoolUnchanged
    /\ UNCHANGED <<CONN_ID_COUNTER, th, issued>>

\* ConnectionState::begin_transaction / end_transaction / add_temporary_table /
\* remove_temporary_table: atomic counters behind a shared reference to the entry,
\* changed by a caller between its other calls
BeginTransaction(t, p, h) ==
    /\ th[t].pc = "idle"
    /\ Registered(p, h) /\ in_use[p][h].in_transaction < MaxNest
    /\ in_use' = [in_use EXCEPT ![p][h].in_transaction = @ + 1]
    /\ PoolUnchanged
    /\ UNCHANGED <<CONN_ID_COUNTER, poolObj, tasks, ka, th, released, issued>>
    /\ ret' = NoCall

EndTransaction(t, p, h) ==
    /\ th[t].pc = "idle"
    /\ Registered(p, h) /\ in_use[p][h].in_transaction > 0
    /\ in_use' = [in_use EXCEPT ![p][h].in_transaction = @ - 1]
    /\ PoolUnchanged
    /\ UNCHANGED <<CONN_ID_COUNTER, poolObj, tasks, ka, th, released, issued>>
    /\ ret' = NoCall

AddTemporaryTable(t, p, h) ==
    /\ th[t].pc = "idle"
    /\ Registered(p, h) /\ in_use[p][h].has_temporary_tables < MaxNest
    /\ in_use' = [in_use EXCEPT ![p][h].has_temporary_tables = @ + 1]
    /\ PoolUnchanged
    /\ UNCHANGED <<CONN_ID_COUNTER, poolObj, tasks, ka, th, released, issued>>
    /\ ret' = NoCall

RemoveTemporaryTable(t, p, h) ==
    /\ th[t].pc = "idle"
    /\ Registered(p, h) /\ in_use[p][h].has_temporary_tables > 0
    /\ in_use' = [in_use EXCEPT ![p][h].has_temporary_tables = @ - 1]
    /\ PoolUnchanged
    /\ UNCHANGED <<CONN_ID_COUNTER, poolObj, tasks, ka, th, released, issued>>
    /\ ret' = NoCall

\* ------------------------------------------------------ with_connection
WcUnchanged == UNCHANGED <<POOL_ID_COUNTER, CONN_ID_COUNTER, pools, connection_key_to_pool_id,
                           tasks, ka, released, issued>>

\* query / query_multi / execute and their prepared variants: the pool is looked
\* up, then with_connection snapshots current_database and the safety gate
WithConnection(t, p, h, sql) ==
    /\ th[t].pc = "idle"
    /\ LET me == [Idle EXCEPT !.op = "with_connection", !.pool = p, !.conn = h, !.sql = sql,
                              !.after = (h \in released)]
       IN  IF p \notin pools THEN FinishAs(t, me, "PoolNotFound", NoReason)
           ELSE IF ~Registered(p, h) THEN FinishAs(t, me, "NotFound", NoReason)
           ELSE LET gate == can_safely_reconnect(in_use[p][h])
                IN  /\ th' = [th EXCEPT ![t] = [me EXCEPT !.pc = "probe",
                                 !.db = in_use[p][h].current_database,
                                 !.can = gate[1], !.reason = gate[2]]]
                    /\ ret' = NoCall
    /\ WcUnchanged
    /\ UNCHANGED <<poolObj, in_use>>

\* with_connection: the probe (SELECT 1 under the entry's guard) and the
\* decision taken on its outcome from the gate evaluated up front
WcProbe(t) ==
    LET p == th[t].pool
        h == th[t].conn
        me == [th[t] EXCEPT !.lostTx = in_use[p][h].in_transaction]
    IN  /\ th[t].pc = "probe"
        /\ IF ~Registered(p, h)
           THEN Finish(t, "NotFound", NoReason) /\ UNCHANGED in_use
           ELSE \E o \in ProbeOutcomes(in_use[p][h].conn) :
                  /\ in_use' = [in_use EXCEPT ![p][h].conn = AfterCall(@, o)]
                  /\ IF o = "ok"
                     THEN th' = [th EXCEPT ![t].pc = "action1"] /\ ret' = NoCall
                     ELSE IF ~is_connection_lost_error(o)
                     THEN Finish(t, "HealthCheckFailed", NoReason)
                     ELSE IF ~th[t].can
                     THEN FinishAs(t, me, "Blocked", th[t].reason)
                     ELSE th' = [th EXCEPT ![t] = [me EXCEPT !.pc = "remove1"]] /\ ret' = NoCall
        /\ WcUnchanged
        /\ UNCHANGED poolObj

\* with_connection: self.in_use.remove(&conn_id) before either reconnect
WcRemove(t) ==
    LET p == th[t].pool
        h == th[t].conn
    IN  /\ th[t].pc \in {"remove1", "remove2"}
        /\ IF Registered(p, h)
           THEN /\ in_use' = [in_use EXCEPT ![p][h] = NoState]
                /\ poolObj' = [poolObj EXCEPT ![p] = PutBack(@, in_use[p][h].conn)]
           ELSE UNCHANGED <<in_use, poolObj>>
        /\ th' = [th EXCEPT ![t].pc = IF @ = "remove1" THEN "acquire1" ELSE "acquire2",
                             ![t].prot = /\ Registered(p, h)
                                         /\ \/ in_use[p][h].in_transaction > 0
                                            \/ in_use[p][h].has_temporary_tables > 0]
        /\ WcUnchanged
        /\ ret' = NoCall

\* with_connection: a connection is requested from the pool, the snapshot of
\* current_database is restored with USE, and a new ConnectionState is entered
\* under the same handle id
WcAcquire(t) ==
    LET p == th[t].pool
        h == th[t].conn
        db == th[t].db
        first == th[t].pc = "acquire1"
        me == [th[t] EXCEPT !.acq = @ + 1]
    IN  /\ th[t].pc \in {"acquire1", "acquire2"}
        /\ \E o \in timeout_get(p) :
             IF ~o.ok
             THEN /\ poolObj' = [poolObj EXCEPT ![p].idle = o.idle]
                  /\ FinishAs(t, me, IF first THEN "StaleReconnectFailed" ELSE "LostReconnectFailed",
                              NoReason)
                  /\ UNCHANGED in_use
             ELSE \/ \* USE fails: the new connection is dropped, the handle stays removed
                     /\ db # NoDb
                     /\ poolObj' = [poolObj EXCEPT ![p].idle = Append(o.idle, o.conn)]
                     /\ FinishAs(t, me, "RestoreFailed", NoReason)
                     /\ UNCHANGED in_use
                  \/ /\ poolObj' = [poolObj EXCEPT ![p].idle = o.idle]
                     /\ in_use' = [in_use EXCEPT ![p][h] =
                           NewState(IF db # NoDb THEN [o.conn EXCEPT !.db = db] ELSE o.conn,
                                    db, poolObj[p].auto_reconnect)]
                     /\ th' = [th EXCEPT ![t] = [me EXCEPT !.pc = IF first THEN "action1" ELSE "action2"]]
                     /\ ret' = NoCall
        /\ WcUnchanged

\* a first invocation that tries the action once more after an error that is
\* not a lost connection
WcAction1TriedTwice(t) ==
    LET p == th[t].pool
        h == th[t].conn
        me == [th[t] EXCEPT !.calls = @ + 1]
    IN  /\ th[t].pc = "action1"
        /\ IF ~Registered(p, h)
           THEN Finish(t, "NotFound", NoReason) /\ UNCHANGED in_use
           ELSE \E o \in ActionOutcomes(in_use[p][h].conn) :
                  IF o = "ok"
                  THEN /\ in_use' = [in_use EXCEPT ![p][h].conn = AfterSql(@, th[t].sql)]
                       /\ FinishAs(t, me, "Ok", NoReason)
                  ELSE /\ in_use' = [in_use EXCEPT ![p][h].conn = AfterCall(@, o)]
                       /\ IF ~is_connection_lost_error(o)
                          THEN FinishAs(t, [me EXCEPT !.calls = @ + 1], "ActionError", NoReason)
                          ELSE th' = [th EXCEPT ![t] = [me EXCEPT !.pc = "gate2",
                                          !.lostTx = in_use[p][h].in_transaction]] /\ ret' = NoCall
        /\ WcUnchanged
        /\ UNCHANGED poolObj

\* with_connection: the first invocation of the action
WcAction1(t) ==
    LET p == th[t].pool
        h == th[t].conn
        me == [th[t] EXCEPT !.calls = @ + 1]
    IN  /\ th[t].pc = "action1"
        /\ IF ~Registered(p, h)
           THEN Finish(t, "NotFound", NoReason) /\ UNCHANGED in_use
           ELSE \E o \in ActionOutcomes(in_use[p][h].conn) :
                  IF o = "ok"
                  THEN /\ in_use' = [in_use EXCEPT ![p][h].conn = AfterSql(@, th[t].sql)]
                       /\ FinishAs(t, me, "Ok", NoReason)
                  ELSE /\ in_use' = [in_use EXCEPT ![p][h].conn = AfterCall(@, o)]
                       /\ IF ~is_connection_lost_error(o)
                          THEN FinishAs(t, me, "ActionError", NoReason)
                          ELSE th' = [th EXCEPT ![t] = [me EXCEPT !.pc = "gate2",
                                          !.lostTx = in_use[p][h].in_transaction]] /\ ret' = NoCall
        /\ WcUnchanged
        /\ UNCHANGED poolObj

\* a second gate that gives the handle up when it blocks
WcGate2DropsEntry(t) ==
    LET p == th[t].pool
        h == th[t].conn
    IN  /\ th[t].pc = "gate2"
        /\ IF ~Registered(p, h)
           THEN Finish(t, "NotFound", NoReason) /\ UNCHANGED <<poolObj, in_use>>
           ELSE LET gate == can_safely_reconnect(in_use[p][h])
                IN  IF ~gate[1]
                    THEN /\ Finish(t, "LostBlocked", gate[2])
                         /\ in_use' = [in_use EXCEPT ![p][h] = NoState]
                         /\ poolObj' = [poolObj EXCEPT ![p] = PutBack(@, in_use[p][h].conn)]
                    ELSE /\ th' = [th EXCEPT ![t].pc = "remove2"] /\ ret' = NoCall
                         /\ UNCHANGED <<poolObj, in_use>>
        /\ WcUnchanged

\* with_connection: the safety gate evaluated again after a connection-lost action error
WcGate2(t) ==
    LET p == th[t].pool
        h == th[t].conn
    IN  /\ th[t].pc = "gate2"
        /\ IF ~Registered(p, h)
           THEN Finish(t, "NotFound", NoReason)
           ELSE LET gate == can_safely_reconnect(in_use[p][h])
                IN  IF ~gate[1]
                    THEN Finish(t, "LostBlocked", gate[2])
                    ELSE th' = [th EXCEPT ![t].pc = "remove2"] /\ ret' = NoCall
        /\ WcUnchanged
        /\ UNCHANGED <<poolObj, in_use>>

\* a retry whose connection-lost error goes back to the gate for another round
WcAction2Retrying(t) ==
    LET p == th[t].pool
        h == th[t].conn
        me == [th[t] EXCEPT !.calls = @ + 1]
    IN  /\ th[t].pc = "action2"
        /\ Registered(p, h)
        /\ \E o \in ActionOutcomes(in_use[p][h].conn) :
              /\ in_use' = [in_use EXCEPT ![p][h] =
                    [record_use(@) EXCEPT !.conn = IF o = "ok" THEN AfterSql(@, th[t].sql)
                                                   ELSE AfterCall(@, o)]]
              /\ IF o = "ok" THEN FinishAs(t, me, "Ok", NoReason)
                 ELSE IF ~is_connection_lost_error(o) THEN FinishAs(t, me, "RetryFailed", NoReason)
                 ELSE th' = [th EXCEPT ![t] = [me EXCEPT !.pc = "gate2"]] /\ ret' = NoCall
        /\ WcUnchanged
        /\ UNCHANGED poolObj

\* with_connection: record_use and the second invocation of the action
WcAction2(t) ==
    LET p == th[t].pool
        h == th[t].conn
        me == [th[t] EXCEPT !.calls = @ + 1]
    IN  /\ th[t].pc = "action2"
        /\ IF ~Registered(p, h)
           THEN Finish(t, "ReconnectedNotFound", NoReason) /\ UNCHANGED in_use
           ELSE \E o \in ActionOutcomes(in_use[p][h].conn) :
                  /\ in_use' = [in_use EXCEPT ![p][h] =
                        [record_use(@) EXCEPT !.conn = IF o = "ok" THEN AfterSql(@, th[t].sql)
                                                       ELSE AfterCall(@, o)]]
                  /\ FinishAs(t, me, IF o = "ok" THEN "Ok" ELSE "RetryFailed", NoReason)
        /\ WcUnchanged
        /\ UNCHANGED poolObj

\* ------------------------------------------------------------ keepalive
KaUnchanged == UNCHANGED <<POOL_ID_COUNTER, CONN_ID_COUNTER, pools,
                           connection_key_to_pool_id, tasks, th, released, issued>>
    /\ ret' = NoCall

\* a tick that does not end the task when its pool or its entry is gone
KeepaliveTickKeepsWaiting(h) ==
    LET p == ka[h].pool
    IN  /\ ka[h].st = "waiting"
        /\ IF p \notin pools \/ ~Registered(p, h)
           THEN UNCHANGED <<ka, in_use>>
           ELSE \E o \in ProbeOutcomes(in_use[p][h].conn) :
                  /\ in_use' = [in_use EXCEPT ![p][h].conn = AfterCall(@, o)]
                  /\ ka' = IF ~is_connection_lost_error(o) THEN ka
                           ELSE IF ~can_safely_reconnect(in_use[p][h])[1]
                           THEN [ka EXCEPT ![h].st = "blocked"]
                           ELSE [ka EXCEPT ![h].st = "reconnecting"]
        /\ KaUnchanged
        /\ UNCHANGED poolObj

\* one tick of the task spawned by KeepaliveManager::start: pool lookup, entry
\* lookup, SELECT 1 under the entry's guard, the safety gate on a lost connection.
\* Leaving the loop runs KEEPALIVE_MANAGER.stop -> TOKIO_RUNTIME.block_on on a
\* worker of that runtime, where tokio panics: the task ends, its `tasks` entry
\* stays.
KeepaliveTick(h) ==
    LET p == ka[h].pool
    IN  /\ ka[h].st = "waiting"
        /\ IF p \notin pools \/ ~Registered(p, h)
           THEN ka' = [ka EXCEPT ![h].st = "dead"] /\ UNCHANGED in_use
           ELSE \E o \in ProbeOutcomes(in_use[p][h].conn) :
                  /\ in_use' = [in_use EXCEPT ![p][h].conn = AfterCall(@, o)]
                  /\ ka' = IF ~is_connection_lost_error(o) THEN ka
                           ELSE IF ~can_safely_reconnect(in_use[p][h])[1]
                           THEN [ka EXCEPT ![h].st = "blocked"]
                           ELSE [ka EXCEPT ![h].st = "reconnecting"]
        /\ KaUnchanged
        /\ UNCHANGED poolObj

\* a task that ends after a blocked gate and leaves the handle in the map
KeepaliveRemoveKeepsHandle(h) ==
    /\ ka[h].st \in {"blocked", "reconnecting"}
    /\ ka' = [ka EXCEPT ![h].st = "dead"]
    /\ KaUnchanged
    /\ UNCHANGED <<in_use, poolObj>>

\* the tick after drop(entry): pool.in_use.remove(&conn_id). The blocked branch
\* leaves the loop; the reconnect branch calls TOKIO_RUNTIME.block_on(pool.pool.get())
\* inside the task, which panics as above, so no connection is requested and no
\* state is entered again.
KeepaliveRemove(h) ==
    LET p == ka[h].pool
    IN  /\ ka[h].st \in {"blocked", "reconnecting"}
        /\ IF Registered(p, h)
           THEN /\ in_use' = [in_use EXCEPT ![p][h] = NoState]
                /\ poolObj' = [poolObj EXCEPT ![p] = PutBack(@, in_use[p][h].conn)]
           ELSE UNCHANGED <<in_use, poolObj>>
        /\ ka' = [ka EXCEPT ![h].st = "dead"]
        /\ KaUnchanged

\* ------------------------------------------------------------------ Next
Next ==
    \/ \E t \in Threads, pr \in Profiles : CreatePool(t, pr)
    \/ \E t \in Threads : CreatePoolRegister(t)
    \/ \E t \in Threads, pr \in Profiles : GetOrCreatePool(t, pr)
    \/ \E t \in Threads : GetOrCreatePoolCreate(t)
    \/ \E t \in Threads, p \in PoolIds : ClosePool(t, p)
    \/ \E t \in Threads : ClosePoolRemove(t)
    \/ \E t \in Threads : CloseAllPools(t)
    \/ \E t \in Threads : CloseAllClear(t)
    \/ \E t \in Threads : CloseAllKeys(t)
    \/ \E t \in Threads : CloseAllClose(t)
    \/ \E t \in Threads, p \in PoolIds, db \in DbOpt : GetConnection(t, p, db)
    \/ \E t \in Threads : GetConnectionKeepalive(t)
    \/ \E t \in Threads, p \in PoolIds, h \in ConnIds, db \in DbOpt : SetConnectionDatabase(t, p, h, db)
    \/ \E t \in Threads, p \in PoolIds, h \in ConnIds : ReleaseConnection(t, p, h)
    \/ \E t \in Threads, p \in PoolIds, h \in ConnIds : BeginTransaction(t, p, h)
    \/ \E t \in Threads, p \in PoolIds, h \in ConnIds : EndTransaction(t, p, h)
    \/ \E t \in Threads, p \in PoolIds, h \in ConnIds : AddTemporaryTable(t, p, h)
    \/ \E t \in Threads, p \in PoolIds, h \in ConnIds : RemoveTemporaryTable(t, p, h)
    \/ \E t \in Threads, p \in PoolIds, h \in ConnIds, sql \in Sqls : WithConnection(t, p, h, sql)
    \/ \E t \in Threads : WcProbe(t)
    \/ \E t \in Threads : WcRemove(t)
    \/ \E t \in Threads : WcAcquire(t)
    \/ \E t \in Threads : WcAction1(t)
    \/ \E t \in Threads : WcGate2(t)
    \/ \E t \in Threads : WcAction2(t)
    \/ \E h \in ConnIds : KeepaliveTick(h)
    \/ \E h \in ConnIds : KeepaliveRemove(h)

Spec == Init /\ [][Next]_vars

\* ----------------------------------------- the handles of one built pool
\* the state after one create_pool(profile) call has returned
InitHandle ==
    \E pr \in Profiles :
      LET cfg == from_profile(pr)
      IN  /\ POOL_ID_COUNTER = FirstId + 1
          /\ CONN_ID_COUNTER = FirstId
          /\ pools = {FirstId}
          /\ poolObj = [p \in PoolIds |->
                IF p = FirstId
                THEN [key |-> connection_key(cfg), opts |-> Fingerprint(cfg),
                      auto_reconnect |-> cfg.auto_reconnect,
                      db |-> cfg.current_database, closed |-> FALSE, via |-> "create_pool",
                      idle |-> [i \in 1..min_idle |-> RawConn(cfg.current_database)]]
                ELSE NoPool]
          /\ in_use = [p \in PoolIds |-> [h \in ConnIds |-> NoState]]
          /\ connection_key_to_pool_id = [k \in Keys |-> IF k = connection_key(cfg) THEN FirstId ELSE 0]
          /\ tasks = {}
          /\ ka = [h \in ConnIds |-> NoTask]
          /\ th = [t \in Threads |-> Idle]
          /\ released = {}
          /\ issued = <<>>
          /\ ret = NoCall

\* the state after create_pool(profile) and one get_connection(FirstId, None)
\* have returned: the handle FirstId is registered and its keepalive task waits
InitLease ==
    \E pr \in {q \in Profiles : q.username = <<"u">>} :
      LET cfg == from_profile(pr)
      IN  /\ POOL_ID_COUNTER = FirstId + 1
          /\ CONN_ID_COUNTER = FirstId + 1
          /\ pools = {FirstId}
          /\ poolObj = [p \in PoolIds |->
                IF p = FirstId
                THEN [key |-> connection_key(cfg), opts |-> Fingerprint(cfg),
                      auto_reconnect |-> cfg.auto_reconnect,
                      db |-> cfg.current_database, closed |-> FALSE, via |-> "create_pool",
                      idle |-> [i \in 1..(min_idle - 1) |-> RawConn(cfg.current_database)]]
                ELSE NoPool]
          /\ in_use = [p \in PoolIds |-> [h \in ConnIds |->
                IF p = FirstId /\ h = FirstId
                THEN NewState(RawConn(cfg.current_database), NoDb, cfg.auto_reconnect)
                ELSE NoState]]
          /\ connection_key_to_pool_id = [k \in Keys |-> IF k = connection_key(cfg) THEN FirstId ELSE 0]
          /\ tasks = {FirstId}
          /\ ka = [h \in ConnIds |-> IF h = FirstId THEN [st |-> "waiting", pool |-> FirstId] ELSE NoTask]
          /\ th = [t \in Threads |-> Idle]
          /\ released = {}
          /\ issued = <<FirstId>>
          /\ ret = NoCall

\* concurrent callers on that handle: two client threads, the keepalive task and
\* the counter hooks; every call leaves the database alone
Callers == {"t1", "t2"}

NextConc ==
    \/ \E t \in Callers : ClosePool(t, FirstId)
    \/ \E t \in Callers : ClosePoolRemove(t)
    \/ \E t \in Callers : SetConnectionDatabase(t, FirstId, FirstId, NoDb)
    \/ \E t \in Callers : ReleaseConnection(t, FirstId, FirstId)
    \/ \E t \in Callers : BeginTransaction(t, FirstId, FirstId)
    \/ \E t \in Callers : EndTransaction(t, FirstId, FirstId)
    \/ \E t \in Callers : AddTemporaryTable(t, FirstId, FirstId)
    \/ \E t \in Callers : RemoveTemporaryTable(t, FirstId, FirstId)
    \/ \E t \in Callers : WithConnection(t, FirstId, FirstId, "plain")
    \/ \E t \in Callers : WcProbe(t)
    \/ \E t \in Callers : WcRemove(t)
    \/ \E t \in Callers : WcAcquire(t)
    \/ \E t \in Callers : WcAction1(t)
    \/ \E t \in Callers : WcGate2(t)
    \/ \E t \in Callers : WcAction2(t)
    \/ KeepaliveTick(FirstId)
    \/ KeepaliveRemove(FirstId)

SpecConc == InitLease /\ [][NextConc]_vars

\* one caller at a time (the commands as the UI issues them), with every choice
\* of database: initial_database, set_connection_database, USE in a statement
OneCaller == {"t1"}

NextDb ==
    \/ \E t \in OneCaller, p \in PoolIds, db \in DbOpt : GetConnection(t, p, db)
    \/ \E t \in OneCaller : GetConnectionKeepalive(t)
    \/ \E t \in OneCaller, p \in PoolIds, h \in ConnIds, db \in DbOpt : SetConnectionDatabase(t, p, h, db)
    \/ \E t \in OneCaller, p \in PoolIds, h \in ConnIds : ReleaseConnection(t, p, h)
    \/ \E t \in OneCaller, p \in PoolIds, h \in ConnIds, sql \in Sqls : WithConnection(t, p, h, sql)
    \/ \E t \in OneCaller : WcProbe(t)
    \/ \E t \in OneCaller : WcRemove(t)
    \/ \E t \in OneCaller : WcAcquire(t)
    \/ \E t \in OneCaller : WcAction1(t)
    \/ \E t \in OneCaller : WcGate2(t)
    \/ \E t \in OneCaller : WcAction2(t)
    \/ \E h \in ConnIds : KeepaliveTick(h)
    \/ \E h \in ConnIds : KeepaliveRemove(h)

SpecDb == InitHandle /\ [][NextDb]_vars

\* the pool manager alone: pools are created, looked up by fingerprint and closed
NextManager ==
    \/ \E t \in Callers, pr \in Profiles : CreatePool(t, pr)
    \/ \E t \in Callers : CreatePoolRegister(t)
    \/ \E t \in Callers, pr \in Profiles : GetOrCreatePool(t, pr)
    \/ \E t \in Callers : GetOrCreatePoolCreate(t)
    \/ \E t \in Callers, p \in PoolIds : ClosePool(t, p)
    \/ \E t \in Callers : ClosePoolRemove(t)

SpecManager == Init /\ [][NextManager]_vars

\* handles are checked out of several pools, released, and the pools closed
NextIds ==
    \/ \E t \in Callers, pr \in Profiles : CreatePool(t, pr)
    \/ \E t \in Callers : CreatePoolRegister(t)
    \/ \E t \in Callers, p \in PoolIds : ClosePool(t, p)
    \/ \E t \in Callers : ClosePoolRemove(t)
    \/ \E t \in Callers, p \in PoolIds : GetConnection(t, p, NoDb)
    \/ \E t \in Callers : GetConnectionKeepalive(t)
    \/ \E t \in Callers, p \in PoolIds, h \in ConnIds : ReleaseConnection(t, p, h)

SpecIds == Init /\ [][NextIds]_vars

\* pools are closed while handles are checked out and their keepalive tasks run
NextClose ==
    \/ \E t \in Callers : GetConnection(t, FirstId, NoDb)
    \/ \E t \in Callers : GetConnectionKeepalive(t)
    \/ \E t \in Callers, h \in ConnIds : ReleaseConnection(t, FirstId, h)
    \/ \E t \in Callers : ClosePool(t, FirstId)
    \/ \E t \in Callers : ClosePoolRemove(t)
    \/ \E t \in Callers : CloseAllPools(t)
    \/ \E t \in Callers : CloseAllClear(t)
    \/ \E t \in Callers : CloseAllKeys(t)
    \/ \E t \in Callers : CloseAllClose(t)
    \/ \E h \in ConnIds : KeepaliveTick(h)
    \/ \E h \in ConnIds : KeepaliveRemove(h)

SpecClose == InitHandle /\ [][NextClose]_vars

\* the runtime polls every spawned task whose interval has elapsed
SpecCloseFair ==
    /\ SpecClose
    /\ \A h \in ConnIds : WF_vars(KeepaliveTick(h)) /\ WF_vars(KeepaliveRemove(h))

\* ------------------------------------------------------------ properties
ReconnectPcs == {"remove1", "acquire1", "remove2", "acquire2", "action2"}
AutoReconnectOff(p) == poolObj[p] # NoPool /\ ~poolObj[p].auto_reconnect

\* C1: on a handle whose ConnectionState has auto_reconnect = false, no
\* with_connection call is ever on its way to replace the raw connection (it
\* never removes the state, never asks the pool for a connection, never reaches
\* the retry), and every such call returns having acquired nothing.
C1_DisabledNeverReconnects ==
    /\ \A t \in Threads :
          th[t].op = "with_connection" /\ AutoReconnectOff(th[t].pool)
            => th[t].pc \notin ReconnectPcs /\ th[t].acq = 0
    /\ ret.op = "with_connection" /\ ret.pool \in PoolIds /\ AutoReconnectOff(ret.pool)
            => ret.acq = 0

\* a call on such a handle met a lost connection and was refused by the gate
C1_Witness ==
    /\ ret.op = "with_connection" /\ ret.res \in {"Blocked", "LostBlocked"}
    /\ ret.reason.kind = "disabled" /\ AutoReconnectOff(ret.pool)

C3_AtMostOneRetry ==
    /\ \A t \in Threads :
          /\ th[t].calls <= 2
          /\ th[t].pc \in {"probe", "remove1", "acquire1", "action1"} => th[t].calls = 0
          /\ th[t].pc \in {"gate2", "remove2", "acquire2", "action2"}
                => th[t].calls = 1 /\ th[t].lostTx # NoLost
          /\ th[t].pc \in {"remove2", "acquire2", "action2"} => ~AutoReconnectOff(th[t].pool)
          /\ th[t].pc = "action2" => th[t].acq >= 1
    /\ ret.calls <= 2
    /\ ret.calls = 2 => ret.acq >= 1 /\ ret.lostTx # NoLost
                        /\ ret.res \in {"Ok", "RetryFailed"}
    /\ ret.res = "RetryFailed" => ret.calls = 2

\* a retry was made and its error returned
C3_Witness == ret.op = "with_connection" /\ ret.res = "RetryFailed" /\ ret.calls = 2

\* C4: after every successful reconnect of with_connection (before the action or
\* after its connection-lost failure) the state entered under the same handle id
\* holds a raw connection whose session database equals the current_database
\* snapshot the call took before the failure, and keeps that snapshot as its
\* current_database. (The keepalive task never completes a reconnect.)
C4_ReconnectRestoresDatabase ==
    \A t \in Threads :
      LET p == th[t].pool
          h == th[t].conn
      IN  /\ th[t].op = "with_connection"
          /\ th[t].pc \in {"action1", "action2"}
          /\ th[t].acq > 0
          /\ Registered(p, h)
          => /\ in_use[p][h].conn.db = th[t].db
             /\ in_use[p][h].current_database = th[t].db

\* C5: when a query/execute whose statement does not change the database returns
\* successfully and its handle is registered, the handle's current_database
\* equals the session database of its raw connection.
C5_CurrentDatabaseIsSessionDatabase ==
    /\ ret.op = "with_connection" /\ ret.res = "Ok" /\ SqlDb(ret.sql) = NoDb
    /\ Registered(ret.pool, ret.conn)
    => in_use[ret.pool][ret.conn].current_database = in_use[ret.pool][ret.conn].conn.db

HandleOps == {"with_connection", "set_connection_database", "release_connection"}

\* C6: once release_connection(pool, h) has returned success, every operation on
\* h that starts later and finds the pool (query, execute,
\* set_connection_database, release_connection) fails with "Connection not
\* found", whatever the keepalive task and the calls in flight on h do.
C6_ReleasedHandleStaysGone ==
    ret.op \in HandleOps /\ ret.after /\ ret.res # "PoolNotFound" => ret.res = "NotFound"

\* a with_connection call that has made its probe and has not yet returned
InLease(t) ==
    /\ th[t].op = "with_connection"
    /\ th[t].pc \in {"remove1", "acquire1", "action1", "gate2", "remove2", "acquire2", "action2"}

\* C7: operations on one handle exclude each other: while a with_connection call
\* on h is between its probe and the completion of its action, no other
\* with_connection call on h is in that span, the keepalive task of h is not in
\* the middle of a tick that has probed, and a call on h that finds no entry
\* does not return "Connection not found" while the first one still runs.
C7_ExclusiveLease ==
    /\ \A t, u \in Threads :
          t # u /\ InLease(t) /\ InLease(u)
            => th[t].pool # th[u].pool \/ th[t].conn # th[u].conn
    /\ \A t \in Threads :
          InLease(t) /\ ka[th[t].conn].pool = th[t].pool
            => ka[th[t].conn].st \notin {"blocked", "reconnecting"}
    /\ ret.op = "with_connection" /\ ret.res = "NotFound" /\ ~ret.after
            => \A t \in Threads : ~(InLease(t) /\ th[t].pool = ret.pool /\ th[t].conn = ret.conn)

\* C8: a with_connection call removes no handle: when a call returns an error
\* (a failed reconnect acquire and a failed USE restore included) on a handle
\* that was not released, whose pool is open and whose keepalive task has not
\* ended, the handle is registered.
C8_ErrorLeavesHandleRegistered ==
    /\ ret.op = "with_connection"
    /\ ret.res \notin {"Ok", "NotFound", "PoolNotFound"}
    /\ ret.pool \in pools /\ ret.conn \notin released
    /\ ka[ret.conn].st = "waiting"
    => Registered(ret.pool, ret.conn)

\* C9: a handle id is registered in at most one pool at a time, every registered
\* id was handed out by get_connection, and the ids get_connection hands out
\* are strictly increasing in the order of their allocation, so none comes
\* twice, whatever was released or closed in between.
C9_HandleIdsUnique ==
    /\ \A h \in ConnIds : Cardinality({p \in PoolIds : Registered(p, h)}) <= 1
    /\ \A p \in PoolIds, h \in ConnIds :
          Registered(p, h) => h < CONN_ID_COUNTER /\ \E i \in 1..Len(issued) : issued[i] = h
    /\ \A i, j \in 1..Len(issued) : i < j => issued[i] < issued[j]

\* two handles were handed out by different pools after an earlier one was
\* released
C9_Witness ==
    /\ Len(issued) = MaxConns
    /\ released # {}
    /\ \E p \in PoolIds, h \in ConnIds : Registered(p, h) /\ h \notin released /\ p # FirstId

\* a registered pool that a get_or_create_pool call built and has returned
GocReturned(p) ==
    /\ p \in pools
    /\ poolObj[p].via = "get_or_create_pool"
    /\ \A t \in Threads : ~(th[t].pc = "create_register" /\ th[t].pool = p)

\* C10: two get_or_create_pool calls whose profiles have the same fingerprint
\* (host, port, user, password, sslMode, sslCaPath) return the same pool id,
\* whatever their database, while the pool returned first is not closed: no two
\* registered pools returned by such calls share a fingerprint, and a call
\* returns no other id than that of a registered pool an earlier call returned
\* for the fingerprint.
C10_SameFingerprintSamePool ==
    /\ \A p, q \in PoolIds :
          GocReturned(p) /\ GocReturned(q) /\ poolObj[p].key = poolObj[q].key => p = q
    /\ ret.op = "get_or_create_pool" /\ ret.res = "Ok"
          => \A q \in PoolIds :
               GocReturned(q) /\ poolObj[q].key = poolObj[ret.pool].key => q = ret.pool

\* C11: after close_pool(id) has returned, id is no key of `pools`, no value of
\* connection_key_to_pool_id, and the closed pool's in_use map has no entry.
C11_ClosedPoolInNeitherMap ==
    ret.op = "close_pool"
      => /\ ret.pool \notin pools
         /\ \A k \in Keys : connection_key_to_pool_id[k] # ret.pool
         /\ \A h \in ConnIds : ~Registered(ret.pool, h)

\* a keepalive task that has not ended
Running(h) == ka[h].st \in {"waiting", "blocked", "reconnecting"}

\* C12: when close_pool(id) returns, every keepalive task started for a handle
\* of pool id has exited (so none of them probes or reconnects afterwards),
\* also with get_connection calls and keepalive ticks running beside the call.
C12_CloseStopsKeepalive ==
    ret.op = "close_pool"
      => \A h \in ConnIds : ka[h].pool = ret.pool => ~Running(h)

Closed(p) == IF poolObj[p] = NoPool THEN FALSE ELSE poolObj[p].closed

\* C13: once a pool is closed (by close_pool or close_all_pools), every keepalive
\* task of a handle of that pool that still runs exits eventually, given that
\* the runtime keeps polling the tasks; and no step of a keepalive task enters
\* a handle in the in_use map of a closed pool.
C13_KeepaliveExitsAfterClose ==
    /\ \A p \in PoolIds, h \in ConnIds :
          (Closed(p) /\ ka[h].pool = p /\ Running(h)) ~> ~Running(h)
    /\ [][(\E h \in ConnIds : KeepaliveTick(h) \/ KeepaliveRemove(h))
            => \A p \in PoolIds, h \in ConnIds :
                 Closed(p) /\ in_use'[p][h] # NoState => Registered(p, h)]_vars

\* close_all_pools has returned and a task started beside it for a handle of a
\* closed pool still waits for its tick
C13_Witness ==
    /\ ret.op = "close_all_pools"
    /\ \E h \in ConnIds : ka[h].pool \in PoolIds /\ Closed(ka[h].pool) /\ ka[h].st = "waiting"

\* the raw connections of a pool: those in the reservoir and those checked out
PoolSize(p) == Len(poolObj[p].idle) + CheckedOut(p)

\* C14: every registered pool (its warm-up is over when it is registered) has at
\* least min_idle and at most max_pool_size raw connections, whatever
\* get_connection, release_connection and failed recycle probes came before.
C14_PoolSizeWithinBounds ==
    \A p \in pools : min_idle <= PoolSize(p) /\ PoolSize(p) <= max_pool_size

\* ------------------------------------------------- sqlutils: the splitter
\* A script is a sequence of characters (strings of length one); index
\* arguments are zero-based as in the source.
NUL == "NUL"                               \* '\0', the look-ahead past the end
Backtick == "BACKTICK"                     \* the grave accent
Whitespace == {" ", "\n", "\r", "\t"}
UpperChars == <<"A", "B", "C", "D", "E", "F", "G", "H", "I", "J", "K", "L", "M",
                "N", "O", "P", "Q", "R", "S", "T", "U", "V", "W", "X", "Y", "Z">>
LowerChars == <<"a", "b", "c", "d", "e", "f", "g", "h", "i", "j", "k", "l", "m",
                "n", "o", "p", "q", "r", "s", "t", "u", "v", "w", "x", "y", "z">>
Letters == {UpperChars[k] : k \in 1..26} \cup {LowerChars[k] : k \in 1..26}
Digits == {DigitChars[k] : k \in 1..10}

is_whitespace(c) == c \in Whitespace
AlphaNumeric == Letters \cup Digits
is_alphanumeric(c) == c \in AlphaNumeric

UpperOf == [c \in {LowerChars[k] : k \in 1..26} |->
               UpperChars[CHOOSE k \in 1..26 : LowerChars[k] = c]]
LowerOf == [c \in {UpperChars[k] : k \in 1..26} |->
               LowerChars[CHOOSE k \in 1..26 : UpperChars[k] = c]]
AsciiUpper(c) == IF c \in DOMAIN UpperOf THEN UpperOf[c] ELSE c
AsciiLower(c) == IF c \in DOMAIN LowerOf THEN LowerOf[c] ELSE c
to_ascii_uppercase(s) == [k \in 1..Len(s) |-> AsciiUpper(s[k])]
to_ascii_lowercase(s) == [k \in 1..Len(s) |-> AsciiLower(s[k])]
eq_ignore_ascii_case(a, b) ==
    Len(a) = Len(b) /\ \A k \in 1..Len(a) : AsciiUpper(a[k]) = AsciiUpper(b[k])
starts_with(s, prefix) ==
    Len(prefix) <= Len(s) /\ \A k \in 1..Len(prefix) : s[k] = prefix[k]

MinOf(S) == CHOOSE x \in S : \A y \in S : x <= y
MaxOf(S) == CHOOSE x \in S : \A y \in S : y <= x

\* str::trim
trim(s) ==
    LET ns == {k \in 1..Len(s) : ~is_whitespace(s[k])}
    IN  IF ns = {} THEN <<>> ELSE SubSeq(s, MinOf(ns), MaxOf(ns))

RECURSIVE split_whitespace(_)
\* str::split_whitespace, collected
split_whitespace(s) ==
    LET ns == {k \in 1..Len(s) : ~is_whitespace(s[k])}
    IN  IF ns = {} THEN <<>>
        ELSE LET b == MinOf(ns)
                 ws == {k \in b..Len(s) : is_whitespace(s[k])}
                 e == IF ws = {} THEN Len(s) + 1 ELSE MinOf(ws)
             IN  <<SubSeq(s, b, e - 1)>> \o split_whitespace(SubSeq(s, e, Len(s)))

\* chars[index]
At(chars, index) == chars[index + 1]
\* chars[from..to]
Slice(chars, from, to) == SubSeq(chars, from + 1, to)

find_line_end(chars, start) ==
    LET nl == {k \in start..(Len(chars) - 1) : At(chars, k) = "\n"}
    IN  IF nl = {} THEN Len(chars) ELSE MinOf(nl)

RECURSIVE is_line_prefix_whitespace(_, _)
is_line_prefix_whitespace(chars, index) ==
    IF index = 0 THEN TRUE
    ELSE LET prev == At(chars, index - 1)
         IN  IF prev = "\n" THEN TRUE
             ELSE IF ~is_whitespace(prev) THEN FALSE
             ELSE is_line_prefix_whitespace(chars, index - 1)

line_starts_with(chars, index, keyword) ==
    /\ is_line_prefix_whitespace(chars, index)
    /\ index + Len(keyword) <= Len(chars)
    /\ eq_ignore_ascii_case(Slice(chars, index, index + Len(keyword)), keyword)

line_equals(chars, index, keyword) ==
    LET end == index + Len(keyword)
        stop == {k \in end..(Len(chars) - 1) :
                   At(chars, k) \in {"\n", "\r"} \/ ~is_whitespace(At(chars, k))}
    IN  /\ is_line_prefix_whitespace(chars, index)
        /\ end <= Len(chars)
        /\ eq_ignore_ascii_case(Slice(chars, index, end), keyword)
        /\ IF stop = {} THEN TRUE ELSE At(chars, MinOf(stop)) \in {"\n", "\r"}

matches_delimiter(chars, index, delimiter) ==
    /\ index + Len(delimiter) <= Len(chars)
    /\ Slice(chars, index, index + Len(delimiter)) = delimiter

KwDelimiter == <<"D", "E", "L", "I", "M", "I", "T", "E", "R">>
KwGo == <<"G", "O">>
KwSlash == <<"/">>
KwBegin == <<"B", "E", "G", "I", "N">>
KwCase == <<"C", "A", "S", "E">>
KwEnd == <<"E", "N", "D">>
Semicolon == <<";">>

\* the locals of split_sql_statements_inner at the head of its loop
SplitStart ==
    [i |-> 0, current |-> <<>>, delimiter |-> Semicolon, in_string |-> FALSE,
     string_char |-> NUL, in_block_comment |-> FALSE, in_line_comment |-> FALSE,
     block_depth |-> 0, current_word |-> <<>>, statements |-> <<>>]

\* whether the quote at index i is preceded by an odd number of backslashes
Escaped(chars, i) ==
    LET nb == {k \in 0..(i - 1) : At(chars, k) # "\\"}
        first == IF nb = {} THEN 0 ELSE MaxOf(nb) + 1
    IN  (i - first) % 2 = 1

\* the first part of an iteration: the string / comment state, lines 78-123.
\* `skip` is TRUE when the iteration ends there with `continue`.
Scan(chars, support, s) ==
    LET ch == At(chars, s.i)
        next_ch == IF s.i + 1 < Len(chars) THEN At(chars, s.i + 1) ELSE NUL
        keep == [st |-> s, skip |-> FALSE]
    IN  IF ~s.in_block_comment /\ ~s.in_line_comment /\ ~s.in_string
        THEN IF ch \in {"'", "\"", Backtick}
             THEN [keep EXCEPT !.st.in_string = TRUE, !.st.string_char = ch]
             ELSE IF ch = "-" /\ next_ch = "-"
             THEN [keep EXCEPT !.st.in_line_comment = TRUE]
             ELSE IF ch = "/" /\ next_ch = "*"
             THEN [keep EXCEPT !.st.in_block_comment = TRUE]
             ELSE IF ch = "#" /\ support.delimiter_cmd
             THEN [keep EXCEPT !.st.in_line_comment = TRUE]
             ELSE keep
        ELSE IF s.in_string
        THEN IF ch = s.string_char /\ ~Escaped(chars, s.i)
             THEN IF ch = "'" /\ next_ch = "'"
                  THEN [keep EXCEPT !.st.current = Append(@, ch), !.st.i = @ + 1]
                  ELSE [keep EXCEPT !.st.in_string = FALSE]
             ELSE keep
        ELSE IF s.in_block_comment
        THEN IF ch = "*" /\ next_ch = "/"
             THEN [st |-> [s EXCEPT !.in_block_comment = FALSE,
                                    !.current = @ \o <<ch, next_ch>>, !.i = @ + 2],
                   skip |-> TRUE]
             ELSE keep
        ELSE IF ch = "\n" THEN [keep EXCEPT !.st.in_line_comment = FALSE] ELSE keep

\* statements.push(stmt) of a non-empty trimmed `current`
Emit(s) == IF trim(s.current) = <<>> THEN s.statements ELSE Append(s.statements, trim(s.current))

\* the block-depth bookkeeping of lines 159-171
Words(ch, s) ==
    IF is_alphanumeric(ch) \/ ch = "_"
    THEN [s EXCEPT !.current_word = Append(@, ch)]
    ELSE IF s.current_word # <<>>
    THEN LET word == to_ascii_uppercase(s.current_word)
         IN  [s EXCEPT !.current_word = <<>>,
                       !.block_depth = IF word = KwBegin \/ word = KwCase THEN @ + 1
                                       ELSE IF word = KwEnd /\ @ > 0 THEN @ - 1 ELSE @]
    ELSE s

\* one iteration of the loop of split_sql_statements_inner; `ch` is the
\* character read at the head of the iteration
Iteration(chars, support, s0) ==
    LET ch == At(chars, s0.i)
        sc == Scan(chars, support, s0)
        s == sc.st
        push == [s EXCEPT !.current = Append(@, ch), !.i = @ + 1]
    IN  IF sc.skip THEN s
        ELSE IF s.in_string \/ s.in_block_comment \/ s.in_line_comment THEN push
        ELSE LET line_end == find_line_end(chars, s.i)
                 parts == split_whitespace(Slice(chars, s.i, line_end))
             IN  IF /\ support.delimiter_cmd /\ line_starts_with(chars, s.i, KwDelimiter)
                    /\ Len(parts) >= 2
                 THEN [s EXCEPT !.delimiter = parts[2], !.current = <<>>, !.i = line_end]
                 ELSE IF support.go /\ line_equals(chars, s.i, KwGo)
                 THEN [s EXCEPT !.statements = Emit(s),
                                !.current = IF trim(@) = <<>> THEN @ ELSE <<>>,
                                !.i = @ + 2]
                 ELSE IF support.slash /\ line_equals(chars, s.i, KwSlash)
                 THEN [s EXCEPT !.statements = Emit(s),
                                !.current = IF trim(@) = <<>> THEN @ ELSE <<>>,
                                !.i = @ + 1]
                 ELSE LET w == Words(ch, s)
                      IN  IF matches_delimiter(chars, w.i, w.delimiter) /\ w.block_depth <= 0
                          THEN [w EXCEPT !.statements = Emit(w), !.current = <<>>,
                                         !.block_depth = 0, !.i = @ + Len(w.delimiter)]
                          ELSE [w EXCEPT !.current = Append(@, ch), !.i = @ + 1]

RECURSIVE SplitLoop(_, _, _)
SplitLoop(chars, support, s) ==
    IF s.i < Len(chars) THEN SplitLoop(chars, support, Iteration(chars, support, s)) ELSE s

\* support_go, support_slash, support_delimiter_cmd
Support(db_type) ==
    [go |-> eq_ignore_ascii_case(db_type, <<"S", "Q", "L", "_", "S", "E", "R", "V", "E", "R">>),
     slash |-> eq_ignore_ascii_case(db_type, <<"O", "R", "A", "C", "L", "E">>),
     delimiter_cmd |-> eq_ignore_ascii_case(db_type, <<"M", "Y", "S", "Q", "L">>)]

\* split_sql_statements_inner(sql, db_type): the statements, and with them the
\* delimiter in force when the loop ended
split_sql_statements_inner(sql, db_type) ==
    IF trim(sql) = <<>>
    THEN [statements |-> <<>>, delimiter |-> Semicolon]
    ELSE LET s == SplitLoop(sql, Support(db_type), SplitStart)
             last == trim(s.current)
         IN  [statements |->
                 IF last # <<>> /\ ~starts_with(to_ascii_lowercase(last), to_ascii_lowercase(KwDelimiter))
                 THEN Append(s.statements, last) ELSE s.statements,
              delimiter |-> s.delimiter]

\* DbType as split_sql_statements hands it on
DbTypes == {<<"M", "Y", "S", "Q", "L">>, <<"P", "O", "S", "T", "G", "R", "E", "S", "Q", "L">>,
            <<"S", "Q", "L", "I", "T", "E">>, <<"S", "Q", "L", "_", "S", "E", "R", "V", "E", "R">>,
            <<"O", "R", "A", "C", "L", "E">>}

RECURSIVE Flatten(_)
\* the script made of the pieces of `ts`, one after the other
Flatten(ts) == IF ts = <<>> THEN <<>> ELSE Head(ts) \o Flatten(Tail(ts))

Sp == <<" ">>
Nl == <<"\n">>
Dollars == <<"$", "$">>
Sel(n) == <<"S", "E", "L", "E", "C", "T", " ", DigitChars[n + 1]>>
CreateProcedure == <<"C", "R", "E", "A", "T", "E", " ", "P", "R", "O", "C", "E", "D", "U", "R", "E",
                     " ", "p", "(", ")", " ">>

\* DELIMITER $$ / CREATE PROCEDURE p() BEGIN SELECT 1; SELECT 2; END$$ /
\* DELIMITER ; / SELECT 3;   (one line each)
ProcedureScript ==
    Flatten(<<KwDelimiter, Sp, Dollars, Nl,
              CreateProcedure, KwBegin, Sp, Sel(1), Semicolon, Sp, Sel(2), Semicolon, Sp, KwEnd, Dollars, Nl,
              KwDelimiter, Sp, Semicolon, Nl,
              Sel(3), Semicolon>>)

MaxPieces == 4         \* pieces a generated script is put together from

\* the sequences of at most n pieces of P
PieceSeqs(P, n) == UNION {[1..k -> P] : k \in 0..n}

Word == <<"a">>
DelimiterLine == Nl \o KwDelimiter \o Sp \o Dollars \o Nl
GoLine == Nl \o KwGo \o Nl
LowerGoLine == Nl \o <<"g", "o", " ">> \o Nl
SlashLine == Nl \o KwSlash \o Nl

\* scripts around the DELIMITER command
DelimiterScripts ==
    {Flatten(ts) : ts \in PieceSeqs({KwDelimiter, Sp, Nl, Dollars, Semicolon, Word}, MaxPieces)}

\* a compound statement inside a routine body
Compound(open, close) ==
    open \o Sp \o Word \o Semicolon \o Sp \o KwEnd \o close \o Semicolon \o Sp
BodyItems ==
    {Word \o Semicolon \o Sp,
     Compound(KwBegin, <<>>),
     Compound(<<"I", "F">>, <<" ", "I", "F">>),
     Compound(KwCase, Sp \o KwCase),
     Compound(<<"W", "H", "I", "L", "E">>, <<" ", "W", "H", "I", "L", "E">>)}

\* BEGIN <items> END
Routines ==
    {KwBegin \o Sp \o Flatten(ts) \o KwEnd : ts \in PieceSeqs(BodyItems, MaxPieces - 1)}
RoutineHead == KwDelimiter \o Sp \o Dollars \o Nl
RoutineTail == Nl \o KwDelimiter \o Sp \o Semicolon \o Nl \o Sel(3) \o Semicolon
\* DELIMITER $$ / <routine>$$ / DELIMITER ; / SELECT 3;
RoutineScripts == {RoutineHead \o r \o Dollars \o RoutineTail : r \in Routines}
\* <routine>;
PlainRoutineScripts == {r \o Semicolon : r \in Routines}

\* string literals and comments with terminators inside
LiteralBody(q) ==
    {Semicolon, Word, GoLine, SlashLine, DelimiterLine, <<"\\", q>>, <<"\\", "\\">>}
        \cup (IF q = "'" THEN {<<"'", "'">>} ELSE {})
Literals ==
    UNION {{<<q>> \o Flatten(ts) \o <<q>> : ts \in PieceSeqs(LiteralBody(q), MaxPieces - 1)} :
             q \in {"'", "\"", Backtick}}
BlockComments ==
    {<<"/", "*">> \o Flatten(ts) \o <<"*", "/">> :
       ts \in PieceSeqs({Semicolon, Word, <<"/">>, GoLine, SlashLine, DelimiterLine}, MaxPieces - 1)}
LineComments ==
    {<<"-", "-", " ">> \o Flatten(ts) :
       ts \in PieceSeqs({Semicolon, Word, KwGo, <<"'">>}, MaxPieces - 1)}
LiteralScripts ==
    {pre \o x : pre \in {<<>>, Word \o Sp}, x \in Literals \cup BlockComments \cup LineComments}

\* scripts around the dialect extensions, with no ';', quote or comment of the
\* common kind in them
ExtensionScripts ==
    {Flatten(ts) : ts \in PieceSeqs({KwDelimiter, KwGo, KwSlash, <<"#">>, Sp, Nl, Word, Dollars}, MaxPieces)}
\* two statements with one candidate terminator between them
TwoStatements(sep) == Sel(1) \o sep \o Sel(2)
HashScript == Sel(1) \o <<" ", "#", " ">> \o Semicolon \o Nl \o Sel(2)
DollarScript == RoutineHead \o Sel(1) \o Dollars \o Sel(2)
\* a statement left without its ';' before a DELIMITER line
TextBeforeDelimiterLine == Word \o Nl \o RoutineHead \o Word \o Dollars

Scripts ==
    DelimiterScripts \cup RoutineScripts \cup PlainRoutineScripts \cup LiteralScripts \cup ExtensionScripts
        \cup {ProcedureScript, TwoStatements(GoLine), TwoStatements(LowerGoLine),
              TwoStatements(SlashLine), HashScript, DollarScript,
              TextBeforeDelimiterLine}

\* the command sql_split_statements(sql, db_type) about to run in a client thread
SplitCall(sql, db_type) ==
    [pc |-> "split", op |-> "sql_split_statements", sql |-> sql, db_type |-> db_type]

InitSplit ==
    /\ POOL_ID_COUNTER = FirstId
    /\ CONN_ID_COUNTER = FirstId
    /\ pools = {}
    /\ poolObj = [p \in PoolIds |-> NoPool]
    /\ in_use = [p \in PoolIds |-> [h \in ConnIds |-> NoState]]
    /\ connection_key_to_pool_id = [k \in Keys |-> 0]
    /\ tasks = {}
    /\ ka = [h \in ConnIds |-> NoTask]
    /\ \E sql \in Scripts, db_type \in DbTypes :
          th = [t \in Threads |-> IF t = "t1" THEN SplitCall(sql, db_type) ELSE Idle]
    /\ released = {}
    /\ issued = <<>>
    /\ ret = NoCall

\* sql_split_statements -> split_sql_statements -> split_sql_statements_inner
SqlSplitStatements(t) ==
    /\ th[t].pc = "split"
    /\ LET r == split_sql_statements_inner(th[t].sql, th[t].db_type)
       IN  ret' = [op |-> "sql_split_statements", sql |-> th[t].sql, db_type |-> th[t].db_type,
                   res |-> r.statements, delimiter |-> r.delimiter]
    /\ th' = [th EXCEPT ![t] = Idle]
    /\ UNCHANGED <<POOL_ID_COUNTER, CONN_ID_COUNTER, pools, poolObj, in_use,
                   connection_key_to_pool_id, tasks, ka, released, issued>>

NextSplit == \E t \in Threads : SqlSplitStatements(t)

SpecSplit == InitSplit /\ [][NextSplit]_vars

\* ------------------------------------------- properties of the splitter
Mysql == <<"M", "Y", "S", "Q", "L">>
SqlServer == <<"S", "Q", "L", "_", "S", "E", "R", "V", "E", "R">>
Oracle == <<"O", "R", "A", "C", "L", "E">>
SplitReturned == ret.op = "sql_split_statements"

\* some line of the script begins, after leading whitespace, with the word
\* DELIMITER followed by a whitespace character
HasDelimiterLine(sql) ==
    \E index \in 0..(Len(sql) - 1) :
      /\ line_starts_with(sql, index, KwDelimiter)
      /\ index + Len(KwDelimiter) < Len(sql)
      /\ is_whitespace(At(sql, index + Len(KwDelimiter)))

\* the script is one line: DELIMITER, whitespace, a token, and what follows it
OneDelimiterLine(sql) ==
    /\ sql \in DelimiterScripts
    /\ \A k \in 1..Len(sql) : sql[k] # "\n"
    /\ Len(split_whitespace(sql)) >= 2
    /\ split_whitespace(sql)[1] = KwDelimiter

\* the example script gives the routine and the last statement
C15_Example ==
    SplitReturned /\ ret.sql = ProcedureScript /\ ret.db_type = Mysql
      => ret.res = <<Flatten(<<CreateProcedure, KwBegin, Sp, Sel(1), Semicolon, Sp, Sel(2),
                               Semicolon, Sp, KwEnd>>), Sel(3)>>

\* a DELIMITER line sets the delimiter to its second token and emits nothing
C15_LineSetsDelimiter ==
    SplitReturned /\ ret.db_type = Mysql /\ OneDelimiterLine(ret.sql)
      => ret.delimiter = split_whitespace(ret.sql)[2] /\ ret.res = <<>>

\* no DELIMITER line, no change of the delimiter
C15_OtherLinesKeepDelimiter ==
    SplitReturned /\ ~HasDelimiterLine(ret.sql) => ret.delimiter = Semicolon

\* C15: in MYSQL mode a line that begins with DELIMITER followed by whitespace
\* sets the delimiter to the next whitespace-separated token and is not
\* emitted; a script with no such line leaves the delimiter at ';'; and the
\* script DELIMITER $$ / CREATE PROCEDURE p() BEGIN SELECT 1; SELECT 2; END$$ /
\* DELIMITER ; / SELECT 3; gives exactly the routine and SELECT 3.
C15_DelimiterCommand ==
    C15_Example /\ C15_LineSetsDelimiter /\ C15_OtherLinesKeepDelimiter

\* the routine of a script of RoutineScripts
RoutineOf(sql) == Slice(sql, Len(RoutineHead), Len(sql) - Len(RoutineTail) - Len(Dollars))

\* C16: a routine BEGIN ... END whose body holds statements, nested BEGIN ... END;
\* blocks and other compound statements (IF, CASE, WHILE) is emitted as exactly
\* one statement, the routine itself: after DELIMITER $$ when it ends in $$ (and
\* the SELECT 3 after it is the second statement), and under the delimiter ';'
\* in any dialect when it ends in ';'.
C16_RoutineIsOneStatement ==
    /\ SplitReturned /\ ret.db_type = Mysql /\ ret.sql \in RoutineScripts
          => ret.res = <<RoutineOf(ret.sql), Sel(3)>>
    /\ SplitReturned /\ ret.sql \in PlainRoutineScripts
          => ret.res = <<SubSeq(ret.sql, 1, Len(ret.sql) - 1)>>

\* C17: a script that is one string literal ('...', "..." or `...`, with
\* backslash-escaped and doubled quotes inside), one /* ... */ comment or one
\* line comment, alone or after a word, is returned whole as one statement and
\* leaves the delimiter at ';', in every dialect, whatever delimiters, GO lines,
\* '/' lines and DELIMITER lines lie inside the literal or comment.
C17_NoTerminatorInsideLiteral ==
    SplitReturned /\ ret.sql \in LiteralScripts
      => ret.res = <<trim(ret.sql)>> /\ ret.delimiter = Semicolon

\* what a script with no terminator in it is split into
Whole(sql) == IF trim(sql) = <<>> THEN <<>> ELSE <<trim(sql)>>

\* a GO line splits in SQL_SERVER mode and nowhere else
C18_Go ==
    SplitReturned /\ ret.sql \in {TwoStatements(GoLine), TwoStatements(LowerGoLine)}
      => ret.res = IF ret.db_type = SqlServer THEN <<Sel(1), Sel(2)>> ELSE Whole(ret.sql)

\* a '/' line splits in ORACLE mode and nowhere else
C18_Slash ==
    SplitReturned /\ ret.sql = TwoStatements(SlashLine)
      => ret.res = IF ret.db_type = Oracle THEN <<Sel(1), Sel(2)>> ELSE Whole(ret.sql)

\* a '#' starts a comment in MYSQL mode and nowhere else
C18_Hash ==
    SplitReturned /\ ret.sql = HashScript
      => ret.res = IF ret.db_type = Mysql THEN Whole(ret.sql)
                   ELSE <<Sel(1) \o <<" ", "#">>, Sel(2)>>

\* the DELIMITER command works in MYSQL mode and nowhere else
C18_Delimiter ==
    SplitReturned /\ ret.sql = DollarScript
      => ret.res = IF ret.db_type = Mysql THEN <<Sel(1), Sel(2)>> ELSE Whole(ret.sql)

\* in the dialects without extension a script with no ';', quote or comment in
\* it is one statement
C18_NoExtension ==
    SplitReturned /\ ret.sql \in ExtensionScripts /\ ret.db_type \notin {Mysql, SqlServer, Oracle}
      => ret.res = Whole(ret.sql) /\ ret.delimiter = Semicolon

\* C18: a GO line terminates the statement exactly in SQL_SERVER mode, a '/'
\* line exactly in ORACLE mode, the DELIMITER command and '#' comments work
\* exactly in MYSQL mode, and in POSTGRESQL and SQLITE mode none of them has any
\* effect on the result.
C18_ExtensionsByDialect ==
    C18_Go /\ C18_Slash /\ C18_Hash /\ C18_Delimiter /\ C18_NoExtension

RECURSIVE Join(_, _)
\* the statements one after the other, each followed by the delimiter
Join(stmts, delimiter) ==
    IF stmts = <<>> THEN <<>> ELSE Head(stmts) \o delimiter \o Join(Tail(stmts), delimiter)

\* the statements with the delimiter between them only
JoinBetween(stmts, delimiter) ==
    IF stmts = <<>> THEN <<>> ELSE SubSeq(Join(stmts, delimiter), 1, Len(Join(stmts, delimiter)) - Len(delimiter))

NotWhitespace(c) == ~is_whitespace(c)
SameModuloWhitespace(a, b) ==
    Len(a) = Len(b) /\ \A k \in 1..Len(a) : SelectSeq(a[k], NotWhitespace) = SelectSeq(b[k], NotWhitespace)

\* C19: joining the statements a split returned with the delimiter in force at
\* its end (between them, or after each of them) and splitting the joined
\* script in the same dialect returns the same statements, whitespace aside.
C19_SplitRoundTrip ==
    SplitReturned
      => \E joined \in {Join(ret.res, ret.delimiter), JoinBetween(ret.res, ret.delimiter)} :
           SameModuloWhitespace(split_sql_statements_inner(joined, ret.db_type).statements, ret.res)

\* ------------------------------------------------- import: do_import_csv
MaxRows == 1001        \* data rows of the file read in a run
BatchSize == 500

\* a batch that is sent only when it has grown beyond the batch size
BatchOverfull(params_batch) == Len(params_batch) > BatchSize

\* params_batch.len() >= 500
BatchFull(params_batch) == Len(params_batch) >= BatchSize

\* do_import_csv after conn.prep, start_transaction and the opening of the
\* reader: no record read yet. `calls` lists the batches handed to exec_batch,
\* a row being the number of its record in the file; `inserted` lists the rows
\* the server holds in the open transaction; `auto_reconnect` is the flag of
\* the profile the pool was built from.
ImportCall ==
    [pc |-> "import_rows", op |-> "import_from_csv", index |-> 0, params_batch |-> <<>>,
     rows_imported |-> 0, calls |-> <<>>, tx |-> 1, inserted |-> <<>>, cause |-> "none",
     auto_reconnect |-> TRUE]

InitImport ==
    /\ POOL_ID_COUNTER = FirstId
    /\ CONN_ID_COUNTER = FirstId
    /\ pools = {}
    /\ poolObj = [p \in PoolIds |-> NoPool]
    /\ in_use = [p \in PoolIds |-> [h \in ConnIds |-> NoState]]
    /\ connection_key_to_pool_id = [k \in Keys |-> 0]
    /\ tasks = {}
    /\ ka = [h \in ConnIds |-> NoTask]
    /\ \E a \in BOOLEAN :
          th = [t \in Threads |-> IF t = "t1" THEN [ImportCall EXCEPT !.auto_reconnect = a]
                                  ELSE Idle]
    /\ released = {}
    /\ issued = <<>>
    /\ ret = NoCall

ImportUnchanged ==
    UNCHANGED <<POOL_ID_COUNTER, CONN_ID_COUNTER, pools, poolObj, in_use,
                connection_key_to_pool_id, tasks, ka, released, issued>>

\* a transaction whose end leaves its rows in the table whether committed or not
TransactionDropKeepsRows(committed, inserted) == inserted

\* the end of `tx`: commit() makes the inserted rows the table's; a `tx` dropped
\* by an early return rolls back. The table was empty before the import.
TransactionDrop(committed, inserted) == IF committed THEN inserted ELSE <<>>

\* the message of the Err an early return carries, as the parts it is made of
ImportError(res, cause) ==
    CASE res = "RowFailed" -> <<"row">>
      [] res = "BatchInsertFailed" -> <<"Batch insert failed: ", cause>>
      [] res = "CommitFailed" -> <<"Commit failed: ", cause>>
      [] OTHER -> <<>>

\* import_table: the ImportResult made of the Result of do_import_csv
ImportResult(res, rows_imported, err) ==
    IF res = "Ok"
    THEN [success |-> TRUE, rows_imported |-> rows_imported, error |-> <<>>]
    ELSE [success |-> FALSE, rows_imported |-> 0, error |-> err]

\* the value do_import_csv returns; an early return drops `tx`, which rolls back
ImportReturn(t, me, res, committed) ==
    /\ th' = [th EXCEPT ![t] = Idle]
    /\ ret' = [op |-> me.op, res |-> res, n |-> me.index, rows_imported |-> me.rows_imported,
               calls |-> me.calls, tx |-> me.tx, committed |-> committed,
               inserted |-> me.inserted, cause |-> me.cause,
               auto_reconnect |-> me.auto_reconnect,
               table |-> TransactionDrop(committed, me.inserted),
               result |-> ImportResult(res, me.rows_imported, ImportError(res, me.cause))]

\* what makes a statement fail at the server: the connection is lost, or the
\* server refuses the row
Causes == {"lost", "refused"}

\* exec_batch runs the statement once per row: a failing call has inserted the
\* rows before the one that failed (none, or all but the last)
ExecBatchFails(t, me, batch) ==
    \E c \in Causes, k \in {0, Len(batch) - 1} :
       ImportReturn(t, [me EXCEPT !.cause = c, !.calls = Append(@, batch), !.params_batch = <<>>,
                                  !.inserted = @ \o SubSeq(batch, 1, k)],
                    "BatchInsertFailed", FALSE)

ExecBatch(me, batch) ==
    [me EXCEPT !.calls = Append(@, batch), !.params_batch = <<>>, !.inserted = @ \o batch]

\* one turn of the loop over reader.records(): the record is pushed and counted,
\* and a full batch is handed to exec_batch and drained
ImportRecord(t) ==
    LET me == th[t]
        pushed == [me EXCEPT !.index = @ + 1, !.rows_imported = @ + 1,
                             !.params_batch = Append(@, me.index + 1)]
    IN  /\ me.pc = "import_rows"
        /\ me.index < MaxRows
        /\ IF BatchFull(pushed.params_batch)
           THEN \/ th' = [th EXCEPT ![t] = ExecBatch(pushed, pushed.params_batch)] /\ ret' = NoCall
                \/ ExecBatchFails(t, pushed, pushed.params_batch)
           ELSE th' = [th EXCEPT ![t] = pushed] /\ ret' = NoCall
        /\ ImportUnchanged

\* a record that does not parse, has the wrong number of fields or holds a value
\* that does not convert
ImportRecordError(t) ==
    /\ th[t].pc = "import_rows"
    /\ th[t].index < MaxRows
    /\ ImportReturn(t, [th[t] EXCEPT !.index = @ + 1], "RowFailed", FALSE)
    /\ ImportUnchanged

\* the end of the file: the residual batch, then the commit
ImportEof(t) ==
    LET me == th[t]
        sent == IF me.params_batch # <<>> THEN ExecBatch(me, me.params_batch) ELSE me
    IN  /\ me.pc = "import_rows"
        /\ \/ ImportReturn(t, sent, "Ok", TRUE)
           \/ me.params_batch # <<>> /\ ExecBatchFails(t, me, me.params_batch)
           \/ \E c \in Causes : ImportReturn(t, [sent EXCEPT !.cause = c], "CommitFailed", FALSE)
        /\ ImportUnchanged

NextImport ==
    \/ \E t \in Threads : ImportRecord(t)
    \/ \E t \in Threads : ImportRecordError(t)
    \/ \E t \in Threads : ImportEof(t)

SpecImport == InitImport /\ [][NextImport]_vars

ImportOk == ret.op = "import_from_csv" /\ ret.res = "Ok"

\* C20: a successful import of N data rows has issued ceil(N / 500) exec_batch
\* calls in its one transaction, each but the last with exactly 500 rows and the
\* last with the residual, the rows in file order over the calls, N rows in all,
\* and returns rows_imported = N; no batch in the making ever holds 500 rows.
C20_BatchesOfFiveHundred ==
    /\ \A t \in Threads :
          th[t].op = "import_from_csv" => Len(th[t].params_batch) < BatchSize /\ th[t].tx = 1
    /\ ImportOk =>
          LET k == Len(ret.calls)
          IN  /\ k = (ret.n + BatchSize - 1) \div BatchSize
              /\ \A j \in 1..(k - 1) : Len(ret.calls[j]) = BatchSize
              /\ k > 0 => Len(ret.calls[k]) = ret.n - BatchSize * (k - 1)
              /\ Flatten(ret.calls) = [i \in 1..ret.n |-> i]
              /\ ret.rows_imported = ret.n
              /\ ret.tx = 1 /\ ret.committed

\* 501 rows were imported in two calls of 500 rows and 1 row
C20_Witness ==
    /\ ImportOk /\ ret.n = BatchSize + 1
    /\ Len(ret.calls) = 2 /\ Len(ret.calls[1]) = BatchSize /\ Len(ret.calls[2]) = 1

ImportReturned == ret.op = "import_from_csv"

\* C21: an import is all-or-nothing. At its return, a failed import (a row that
\* does not parse or convert, a failed exec_batch, a failed commit) has not
\* committed, the table holds none of its rows, whatever the batches executed
\* before, and the result is success = false with rows_imported = 0; a
\* successful one has committed its N rows and reports rows_imported = N.
C21_ImportAllOrNothing ==
    ImportReturned =>
       IF ret.res = "Ok"
       THEN /\ ret.committed
            /\ ret.table = [i \in 1..ret.n |-> i]
            /\ ret.result.success /\ ret.result.rows_imported = ret.n
       ELSE /\ ~ret.committed
            /\ ret.table = <<>>
            /\ ~ret.result.success /\ ret.result.rows_imported = 0

\* the second batch failed on its last row after the first batch was executed
C21_Witness ==
    /\ ImportReturned /\ ret.res = "BatchInsertFailed"
    /\ Len(ret.calls) = 2 /\ Len(ret.inserted) = 2 * BatchSize - 1
    /\ ret.table = <<>> /\ ret.rows_imported = 2 * BatchSize

LostDisabled == <<"Connection lost and auto-reconnect is disabled: ", "disabled">>

\* C22: an import of a profile with auto_reconnect = false whose connection is
\* lost while a batch is executed leaves no row in the table and returns the
\* reconnect gate's error, 'Connection lost and auto-reconnect is disabled'.
C22_ImportLostConnection ==
    (ImportReturned /\ ret.res = "BatchInsertFailed" /\ ret.cause = "lost" /\ ~ret.auto_reconnect)
       => ret.table = <<>> /\ ret.result.error = LostDisabled

\* --------------------------------- export and import of a table as text
MaxText == 2                 \* characters of a string cell
Quote == "\""
Bom == "BOM"                 \* the byte order mark EF BB BF, as one character
TextChars == {"a", " ", ",", "\t", "\n", Quote}

\* a cell as the text protocol returns it: NULL, or Bytes of the text
NullValue == [null |-> TRUE, text |-> <<>>]
Bytes(text) == [null |-> FALSE, text |-> text]

\* value_to_string of a NULL or Bytes value
value_to_string(value) == IF value.null THEN <<>> ELSE value.text

\* the string forms of the cells of a table
StringForms(rows) == [r \in 1..Len(rows) |-> [c \in 1..Len(rows[r]) |-> value_to_string(rows[r][c])]]

\* escape_csv_field
escape_csv_field(value) ==
    IF \E k \in 1..Len(value) : value[k] \in {",", Quote, "\n", "\r"}
    THEN <<Quote>> \o Flatten([k \in 1..Len(value) |->
                                  IF value[k] = Quote THEN <<Quote, Quote>> ELSE <<value[k]>>])
                   \o <<Quote>>
    ELSE value

\* format!("\"{}\"", str_val)
QuoteTxt(value) == <<Quote>> \o value \o <<Quote>>

\* serde_json's text of a string
JsonString(value) ==
    <<Quote>> \o Flatten([k \in 1..Len(value) |->
                 CASE value[k] = Quote -> <<"\\", Quote>>
                   [] value[k] = "\\" -> <<"\\", "\\">>
                   [] value[k] = "\n" -> <<"\\", "n">>
                   [] value[k] = "\r" -> <<"\\", "r">>
                   [] value[k] = "\t" -> <<"\\", "t">>
                   [] OTHER -> <<value[k]>>])
              \o <<Quote>>

\* the lines a writer has written: header.join(sep) and record.join(sep), each
\* followed by "\n"
WriteLines(lines) == Flatten([k \in 1..Len(lines) |-> lines[k] \o <<"\n">>])

Names(columns) == [c \in 1..Len(columns) |-> columns[c].name]

\* do_export_csv: the header is written with the first row
do_export_csv(columns, rows) ==
    <<Bom>> \o
    (IF rows = <<>> THEN <<>>
     ELSE WriteLines(<<JoinBetween([c \in 1..Len(columns) |-> escape_csv_field(columns[c].name)],
                                   <<",">>)>>
            \o [r \in 1..Len(rows) |->
                  JoinBetween([c \in 1..Len(columns) |->
                                 escape_csv_field(value_to_string(rows[r][c]))], <<",">>)]))

\* do_export_txt
do_export_txt(columns, rows) ==
    <<Bom>> \o
    (IF rows = <<>> THEN <<>>
     ELSE WriteLines(<<JoinBetween([c \in 1..Len(columns) |-> QuoteTxt(columns[c].name)], <<"\t">>)>>
            \o [r \in 1..Len(rows) |->
                  JoinBetween([c \in 1..Len(columns) |-> QuoteTxt(value_to_string(rows[r][c]))],
                              <<"\t">>)]))

\* serde_json::to_string of the object of a row: {"name":"value",...}
JsonObject(columns, row) ==
    <<"{">> \o JoinBetween([c \in 1..Len(columns) |->
                              JsonString(columns[c].name) \o <<":">>
                                 \o JsonString(value_to_string(row[c]))], <<",">>)
            \o <<"}">>

\* do_export_jsonl
do_export_jsonl(columns, rows) ==
    WriteLines([r \in 1..Len(rows) |-> JsonObject(columns, rows[r])])

RECURSIVE LinesFrom(_, _)
\* BufRead::lines: the text up to each "\n", without it and without a "\r"
\* before it; a last line that has no "\n" is a line too
LinesFrom(chars, start) ==
    IF start > Len(chars) THEN <<>>
    ELSE LET nl == {k \in start..Len(chars) : chars[k] = "\n"}
         IN  IF nl = {} THEN <<SubSeq(chars, start, Len(chars))>>
             ELSE LET e == MinOf(nl)
                      line == SubSeq(chars, start, e - 1)
                  IN  <<IF line # <<>> /\ line[Len(line)] = "\r"
                        THEN SubSeq(line, 1, Len(line) - 1) ELSE line>>
                      \o LinesFrom(chars, e + 1)

\* the value of a field of parse_txt_line: trimmed, and without the quotes
\* around it if it has them
TxtField(current) ==
    LET trimmed == trim(current)
    IN  IF Len(trimmed) >= 2 /\ trimmed[1] = Quote /\ trimmed[Len(trimmed)] = Quote
        THEN SubSeq(trimmed, 2, Len(trimmed) - 1)
        ELSE trimmed

RECURSIVE TxtScan(_, _, _, _, _)
\* the loop of parse_txt_line from the character i on
TxtScan(line, i, current, in_quotes, result) ==
    IF i > Len(line)
    THEN IF current # <<>> \/ (line # <<>> /\ line[Len(line)] = "\t")
         THEN Append(result, TxtField(current))
         ELSE result
    ELSE LET ch == line[i]
         IN  IF ch = Quote
             THEN IF in_quotes /\ i < Len(line) /\ line[i + 1] = Quote
                  THEN TxtScan(line, i + 2, Append(current, Quote), in_quotes, result)
                  ELSE TxtScan(line, i + 1, current, ~in_quotes, result)
             ELSE IF ch = "\t" /\ ~in_quotes
                  THEN TxtScan(line, i + 1, <<>>, in_quotes, Append(result, TxtField(current)))
                  ELSE TxtScan(line, i + 1, Append(current, ch), in_quotes, result)

parse_txt_line(line) == TxtScan(line, 1, <<>>, FALSE, <<>>)

RECURSIVE StripZeros(_)
StripZeros(digits) ==
    IF Len(digits) > 1 /\ Head(digits) = "0" THEN StripZeros(Tail(digits)) ELSE digits

\* str::parse::<i64> followed by the decimal text of the number: a sign, then
\* digits only
ParseI64(raw) ==
    LET signed == raw # <<>> /\ raw[1] \in {"+", "-"}
        digits == IF signed THEN Tail(raw) ELSE raw
        ok == digits # <<>> /\ \A k \in 1..Len(digits) : digits[k] \in Digits
        number == StripZeros(digits)
    IN  [ok |-> ok,
         text |-> IF ~ok THEN <<>>
                  ELSE IF raw[1] = "-" /\ number # <<"0">> THEN <<"-">> \o number ELSE number]

\* detect_column_type, for the types of the tables read here
detect_column_type(data_type) ==
    IF data_type \in {"int", "integer", "bigint", "smallint", "mediumint", "tinyint"}
    THEN "Integer" ELSE "String"

\* parse_value: the value bound to the INSERT, or the error
parse_value(raw, column) ==
    IF trim(raw) = <<>>
    THEN [ok |-> TRUE, value |-> IF column.nullable THEN NullValue ELSE Bytes(<<>>)]
    ELSE IF detect_column_type(column.data_type) = "Integer"
         THEN [ok |-> ParseI64(raw).ok, value |-> Bytes(ParseI64(raw).text)]
         ELSE [ok |-> TRUE, value |-> Bytes(raw)]

\* json_to_value of a JSON string, or of null
json_to_value(value, column) ==
    IF value.null
    THEN [ok |-> TRUE, value |-> IF column.nullable THEN NullValue ELSE Bytes(<<>>)]
    ELSE IF detect_column_type(column.data_type) = "Integer"
         THEN [ok |-> ParseI64(value.text).ok, value |-> Bytes(ParseI64(value.text).text)]
         ELSE [ok |-> TRUE, value |-> Bytes(value.text)]

normalize_column_name(name) == to_ascii_lowercase(trim(name))

RECURSIVE CsvScan(_, _, _, _, _, _)
\* csv::Reader with the default settings: fields separated by ',', records
\* ended by "\n", "\r" or "\r\n", empty lines skipped, a field that begins
\* with '"' read up to its closing '"' with "" for a quote inside it.
\* st is "start" (before a record), "field" (before a field), "plain" (in an
\* unquoted field or after a closing quote), "quoted" or "closing" (after a
\* quote inside a quoted field).
CsvScan(chars, i, st, field, record, records) ==
    IF i > Len(chars)
    THEN IF st = "start" THEN records ELSE Append(records, Append(record, field))
    ELSE LET ch == chars[i]
         IN  IF st = "quoted"
             THEN IF ch = Quote
                  THEN CsvScan(chars, i + 1, "closing", field, record, records)
                  ELSE CsvScan(chars, i + 1, "quoted", Append(field, ch), record, records)
             ELSE IF st = "closing" /\ ch = Quote
             THEN CsvScan(chars, i + 1, "quoted", Append(field, Quote), record, records)
             ELSE IF ch \in {"\n", "\r"}
             THEN IF st = "start"
                  THEN CsvScan(chars, i + 1, "start", <<>>, <<>>, records)
                  ELSE CsvScan(chars, i + 1, "start", <<>>, <<>>,
                               Append(records, Append(record, field)))
             ELSE IF ch = ","
             THEN CsvScan(chars, i + 1, "field", <<>>, Append(record, field), records)
             ELSE IF ch = Quote /\ st \in {"start", "field"}
             THEN CsvScan(chars, i + 1, "quoted", <<>>, record, records)
             ELSE CsvScan(chars, i + 1, "plain", Append(field, ch), record, records)

\* the records of a file; a byte order mark at its start is not part of them
CsvRecords(file) ==
    CsvScan(IF file # <<>> /\ file[1] = Bom THEN Tail(file) ELSE file, 1, "start", <<>>, <<>>, <<>>)

\* header_map.get(key): the index a header name was inserted with, the last
\* insertion of a name winning; 0 if the name is no header
HeaderIndex(headers, key) ==
    LET at == {k \in 1..Len(headers) : normalize_column_name(headers[k]) = key}
    IN  IF at = {} THEN 0 ELSE MaxOf(at)

HeaderNames(headers) == {normalize_column_name(headers[k]) : k \in 1..Len(headers)}

\* the checks of a header against the columns of the table
HeaderFits(headers, columns) ==
    /\ headers # <<>>
    /\ <<>> \notin HeaderNames(headers)
    /\ Cardinality(HeaderNames(headers)) = Len(columns)
    /\ \A c \in 1..Len(columns) : HeaderIndex(headers, normalize_column_name(columns[c].name)) > 0

\* build_values_from_csv and build_values_from_txt: the field under each
\* column's header, "" if the record is too short, through parse_value
build_values(values_str, headers, columns) ==
    [c \in 1..Len(columns) |->
        LET index == HeaderIndex(headers, normalize_column_name(columns[c].name))
        IN  parse_value(IF index <= Len(values_str) THEN values_str[index] ELSE <<>>, columns[c])]

Failed == [res |-> "Err", rows |-> <<>>]

\* the rows of a committed import, or the failure if a value did not convert
Imported(parsed) ==
    IF \A r \in 1..Len(parsed) : \A c \in 1..Len(parsed[r]) : parsed[r][c].ok
    THEN [res |-> "Ok", rows |-> [r \in 1..Len(parsed) |->
                                     [c \in 1..Len(parsed[r]) |-> parsed[r][c].value]]]
    ELSE Failed

\* do_import_csv into an empty table with these columns
do_import_csv(columns, file) ==
    LET records == CsvRecords(file)
    IN  IF records = <<>> \/ ~HeaderFits(Head(records), columns) THEN Failed
        ELSE IF Cardinality(HeaderNames(records[1])) # Len(records[1]) THEN Failed
        ELSE IF \E r \in 2..Len(records) : Len(records[r]) # Len(records[1]) THEN Failed
        ELSE Imported([r \in 1..(Len(records) - 1) |->
                          build_values(records[r + 1], records[1], columns)])

NotBlank(line) == trim(line) # <<>>

\* do_import_txt into an empty table with these columns
do_import_txt(columns, file) ==
    LET lines == LinesFrom(file, 1)
        header_line == IF lines # <<>> /\ lines[1] # <<>> /\ lines[1][1] = Bom
                       THEN Tail(lines[1]) ELSE IF lines = <<>> THEN <<>> ELSE lines[1]
        headers == parse_txt_line(header_line)
        data == SelectSeq(Tail(lines), NotBlank)
    IN  IF lines = <<>> \/ ~HeaderFits(headers, columns) THEN Failed
        ELSE Imported([r \in 1..Len(data) |-> build_values(parse_txt_line(data[r]), headers, columns)])

NoJson == [ok |-> FALSE, text |-> <<>>, next |-> 0]

RECURSIVE JsonStringFrom(_, _, _)
\* serde_json reading a string whose opening quote is before the character i:
\* the text, and the position after the closing quote
JsonStringFrom(chars, i, text) ==
    IF i > Len(chars) \/ chars[i] \in {"\n", "\r", "\t"} THEN NoJson
    ELSE IF chars[i] = Quote THEN [ok |-> TRUE, text |-> text, next |-> i + 1]
    ELSE IF chars[i] = "\\"
    THEN IF i = Len(chars) THEN NoJson
         ELSE LET e == chars[i + 1]
              IN  IF e \in {Quote, "\\", "/"} THEN JsonStringFrom(chars, i + 2, Append(text, e))
                  ELSE IF e = "n" THEN JsonStringFrom(chars, i + 2, Append(text, "\n"))
                  ELSE IF e = "r" THEN JsonStringFrom(chars, i + 2, Append(text, "\r"))
                  ELSE IF e = "t" THEN JsonStringFrom(chars, i + 2, Append(text, "\t"))
                  ELSE NoJson
    ELSE JsonStringFrom(chars, i + 1, Append(text, chars[i]))

RECURSIVE JsonMembers(_, _, _)
\* serde_json reading the members "name":"value" of an object from the
\* character i on, up to its '}' at the end of the text
JsonMembers(chars, i, members) ==
    IF i > Len(chars) \/ chars[i] # Quote THEN [ok |-> FALSE, members |-> <<>>]
    ELSE LET name == JsonStringFrom(chars, i + 1, <<>>)
             colon == name.ok /\ name.next < Len(chars)
                         /\ chars[name.next] = ":" /\ chars[name.next + 1] = Quote
             value == IF colon THEN JsonStringFrom(chars, name.next + 2, <<>>) ELSE NoJson
             more == Append(members, [name |-> name.text, value |-> value.text])
         IN  IF ~value.ok \/ value.next > Len(chars) THEN [ok |-> FALSE, members |-> <<>>]
             ELSE IF chars[value.next] = "}" /\ value.next = Len(chars)
             THEN [ok |-> TRUE, members |-> more]
             ELSE IF chars[value.next] = ","
             THEN JsonMembers(chars, value.next + 1, more)
             ELSE [ok |-> FALSE, members |-> <<>>]

\* serde_json::from_str of a line that holds an object of strings
JsonFromStr(line) ==
    IF line = <<"{", "}">> THEN [ok |-> TRUE, members |-> <<>>]
    ELSE IF line # <<>> /\ line[1] = "{" THEN JsonMembers(line, 2, <<>>)
    ELSE [ok |-> FALSE, members |-> <<>>]

\* obj.get(key).or_else(|| obj.get(&column.name)).unwrap_or(Null)
JsonGet(members, column) ==
    LET at(key) == {k \in 1..Len(members) : members[k].name = key}
        found == IF at(normalize_column_name(column.name)) # {}
                 THEN at(normalize_column_name(column.name)) ELSE at(column.name)
    IN  IF found = {} THEN NullValue ELSE Bytes(members[MaxOf(found)].value)

\* do_import_jsonl and import_json_rows into an empty table with these columns
do_import_jsonl(columns, file) ==
    LET lines == SelectSeq(LinesFrom(file, 1), NotBlank)
        objs == [r \in 1..Len(lines) |-> JsonFromStr(trim(lines[r]))]
    IN  IF \E r \in 1..Len(objs) : ~objs[r].ok THEN Failed
        ELSE Imported([r \in 1..Len(objs) |->
                          [c \in 1..Len(columns) |->
                              json_to_value(JsonGet(objs[r].members, columns[c]), columns[c])]])

\* the tables exported: a key column and a column `v` of a string or an
\* integer type, nullable or not, with no row or one row
IdColumn == [name |-> <<"i", "d">>, data_type |-> "int", nullable |-> FALSE]
ValueColumns == {[name |-> <<"v">>, data_type |-> d, nullable |-> n] :
                    d \in {"varchar", "int"}, n \in BOOLEAN}
Texts == UNION {[1..k -> TextChars] : k \in 0..MaxText}
Numbers == {<<"0">>, <<"7">>, <<"-", "7">>}
CellsOf(column) ==
    {Bytes(s) : s \in IF column.data_type = "int" THEN Numbers ELSE Texts}
       \cup (IF column.nullable THEN {NullValue} ELSE {})
Formats == {"csv", "txt", "jsonl"}

ExportCall(format, columns, rows) ==
    [pc |-> "export", op |-> "export_table", format |-> format, columns |-> columns,
     rows |-> rows, file |-> <<>>]

InitRoundTrip ==
    /\ POOL_ID_COUNTER = FirstId
    /\ CONN_ID_COUNTER = FirstId
    /\ pools = {}
    /\ poolObj = [p \in PoolIds |-> NoPool]
    /\ in_use = [p \in PoolIds |-> [h \in ConnIds |-> NoState]]
    /\ connection_key_to_pool_id = [k \in Keys |-> 0]
    /\ tasks = {}
    /\ ka = [h \in ConnIds |-> NoTask]
    /\ \E format \in Formats, column \in ValueColumns :
         \E rows \in {<<>>} \cup {<<(<<Bytes(<<"1">>), cell>>)>> : cell \in CellsOf(column)} :
            th = [t \in Threads |-> IF t = "t1" THEN ExportCall(format, <<IdColumn, column>>, rows)
                                    ELSE Idle]
    /\ released = {}
    /\ issued = <<>>
    /\ ret = NoCall

\* export_table: the file the export of the format writes
ExportTable(t) ==
    LET me == th[t]
        file == CASE me.format = "csv" -> do_export_csv(me.columns, me.rows)
                  [] me.format = "txt" -> do_export_txt(me.columns, me.rows)
                  [] me.format = "jsonl" -> do_export_jsonl(me.columns, me.rows)
    IN  /\ me.pc = "export"
        /\ th' = [th EXCEPT ![t] = [me EXCEPT !.pc = "import", !.file = file]]
        /\ ret' = [op |-> "export_table", format |-> me.format, res |-> "Ok", file |-> file]
        /\ ImportUnchanged

\* import_table of the exported file into an empty table with the same columns
ImportTable(t) ==
    LET me == th[t]
        r == CASE me.format = "csv" -> do_import_csv(me.columns, me.file)
               [] me.format = "txt" -> do_import_txt(me.columns, me.file)
               [] me.format = "jsonl" -> do_import_jsonl(me.columns, me.file)
    IN  /\ me.pc = "import"
        /\ th' = [th EXCEPT ![t] = Idle]
        /\ ret' = [op |-> "import_table", format |-> me.format, columns |-> me.columns,
                   source |-> me.rows, file |-> me.file, res |-> r.res, rows |-> r.rows]
        /\ ImportUnchanged

NextRoundTrip ==
    \/ \E t \in Threads : ExportTable(t)
    \/ \E t \in Threads : ImportTable(t)

SpecRoundTrip == InitRoundTrip /\ [][NextRoundTrip]_vars

Reimported == ret.op = "import_table"

\* C23: exporting a table as CSV, TXT or JSONL and importing the file into an
\* empty clone succeeds, and every column of every row of the clone has the
\* string form it has in the source.
C23_ExportImportRoundTrip ==
    Reimported => ret.res = "Ok" /\ StringForms(ret.rows) = StringForms(ret.source)

\* ------------------------------------------------------ ssl.rs: SSL options
\* parse_ssl_mode
parse_ssl_mode(value) ==
    LET text == to_ascii_lowercase(trim(IF value = NoneStr
                                        THEN <<"p", "r", "e", "f", "e", "r", "r", "e", "d">>
                                        ELSE value))
        mode == [k \in 1..Len(text) |-> IF text[k] = "_" THEN "-" ELSE text[k]]
    IN  CASE mode = <<"d", "i", "s", "a", "b", "l", "e", "d">> -> "Disabled"
          [] mode = <<"r", "e", "q", "u", "i", "r", "e", "d">> -> "Required"
          [] mode = <<"v", "e", "r", "i", "f", "y", "-", "c", "a">> -> "VerifyCa"
          [] mode = <<"v", "e", "r", "i", "f", "y", "-", "i", "d", "e", "n", "t", "i", "t", "y">>
               -> "VerifyIdentity"
          [] OTHER -> "Preferred"

\* non_empty
non_empty(value) ==
    IF value = NoneStr \/ trim(value) = <<>> THEN NoneStr ELSE trim(value)

\* apply_ssl_mode_to_builder: the error, or the SslOpts given to the builder
\* (<<>>: ssl_opts(None))
apply_ssl_mode_to_builder(profile) ==
    LET mode == parse_ssl_mode(profile.ssl_mode)
        ca_path == non_empty(profile.ssl_ca_path)
        cert_path == non_empty(profile.ssl_cert_path)
        key_path == non_empty(profile.ssl_key_path)
        NoOpts == [root_cert_path |-> NoneStr, client_identity |-> NoneStr,
                   skip_domain_validation |-> FALSE, accept_invalid_certs |-> FALSE]
    IN  IF mode = "Disabled" THEN [ok |-> TRUE, err |-> "none", ssl_opts |-> <<>>]
        ELSE IF mode = "Preferred"
        THEN [ok |-> TRUE, err |-> "none",
              ssl_opts |-> <<[NoOpts EXCEPT !.skip_domain_validation = TRUE,
                                           !.accept_invalid_certs = TRUE]>>]
        ELSE IF mode \in {"VerifyCa", "VerifyIdentity"} /\ ca_path = NoneStr
        THEN [ok |-> FALSE, err |-> "requires an SSL CA certificate path", ssl_opts |-> <<>>]
        ELSE IF (cert_path # NoneStr) # (key_path # NoneStr)
        THEN [ok |-> FALSE, err |-> "must be set together", ssl_opts |-> <<>>]
        ELSE [ok |-> TRUE, err |-> "none",
              ssl_opts |->
                <<[root_cert_path |-> ca_path,
                   client_identity |-> IF cert_path # NoneStr THEN <<cert_path, key_path>> ELSE NoneStr,
                   skip_domain_validation |-> mode \in {"Required", "VerifyCa"},
                   accept_invalid_certs |-> mode = "Required" /\ ca_path = NoneStr]>>]

SslModes == {NoneStr, <<"d", "i", "s", "a", "b", "l", "e", "d">>,
             <<"P", "R", "E", "F", "E", "R", "R", "E", "D">>,
             <<"r", "e", "q", "u", "i", "r", "e", "d">>,
             <<" ", "V", "E", "R", "I", "F", "Y", "_", "C", "A">>,
             <<"v", "e", "r", "i", "f", "y", "-", "i", "d", "e", "n", "t", "i", "t", "y">>,
             <<"x">>}
SslPaths == {NoneStr, <<>>, <<" ">>, <<"p">>}

SslCall(op, profile) == [pc |-> "ssl", op |-> op, profile |-> profile]

InitSsl ==
    /\ POOL_ID_COUNTER = FirstId
    /\ CONN_ID_COUNTER = FirstId
    /\ pools = {}
    /\ poolObj = [p \in PoolIds |-> NoPool]
    /\ in_use = [p \in PoolIds |-> [h \in ConnIds |-> NoState]]
    /\ connection_key_to_pool_id = [k \in Keys |-> 0]
    /\ tasks = {}
    /\ ka = [h \in ConnIds |-> NoTask]
    /\ \E op \in {"create_pool", "test_connection"}, m \in SslModes, ca, cert, key \in SslPaths :
          th = [t \in Threads |->
                  IF t = "t1"
                  THEN SslCall(op, [ssl_mode |-> m, ssl_ca_path |-> ca, ssl_cert_path |-> cert,
                                    ssl_key_path |-> key])
                  ELSE Idle]
    /\ released = {}
    /\ issued = <<>>
    /\ ret = NoCall

\* ConnectionPool::new and test_connection up to the options of the
\* connection: the error of apply_ssl_mode_to_builder is returned and nothing
\* is connected; otherwise the server is reached or not
BuildOpts(t) ==
    LET me == th[t]
        r == apply_ssl_mode_to_builder(me.profile)
    IN  /\ me.pc = "ssl"
        /\ th' = [th EXCEPT ![t] = Idle]
        /\ \E connected \in BOOLEAN :
              /\ r.ok \/ ~connected
              /\ ret' = [op |-> me.op, profile |-> me.profile,
                         res |-> IF ~r.ok THEN "Err" ELSE IF connected THEN "Ok" ELSE "ConnectFailed",
                         err |-> r.err, ssl_opts |-> r.ssl_opts,
                         pool |-> IF connected /\ me.op = "create_pool" THEN FirstId ELSE 0]
        /\ ImportUnchanged

NextSsl == \E t \in Threads : BuildOpts(t)

SpecSsl == InitSsl /\ [][NextSsl]_vars

Present(path) == non_empty(path) # NoneStr

\* C24: a pool creation or connection test of a profile with exactly one of
\* client certificate and client key present (empty after trim is absent) is
\* rejected whatever the SSL mode, and so is one with mode VerifyCa or
\* VerifyIdentity and no CA path: the call does not succeed and no pool is
\* created.
C24_SslPreconditions ==
    (/\ ret.op \in {"create_pool", "test_connection"}
     /\ \/ Present(ret.profile.ssl_cert_path) # Present(ret.profile.ssl_key_path)
        \/ /\ parse_ssl_mode(ret.profile.ssl_mode) \in {"VerifyCa", "VerifyIdentity"}
           /\ ~Present(ret.profile.ssl_ca_path))
       => ret.res # "Ok" /\ ret.pool = 0

\* ------------------------------------- the format argument of the commands
Chars(word) == CASE word = "csv" -> <<"c", "s", "v">>
                 [] word = "txt" -> <<"t", "x", "t">>
                 [] word = "json" -> <<"j", "s", "o", "n">>
                 [] word = "jsonl" -> <<"j", "s", "o", "n", "l">>
                 [] word = "xml" -> <<"x", "m", "l">>
                 [] word = "xlsx" -> <<"x", "l", "s", "x">>
                 [] word = "xls" -> <<"x", "l", "s">>
                 [] word = "html" -> <<"h", "t", "m", "l">>
                 [] word = "sql" -> <<"s", "q", "l">>
                 [] word = "pdf" -> <<"p", "d", "f">>
                 [] OTHER -> <<>>

ImportWords == {"csv", "txt", "json", "jsonl", "xml", "xlsx", "xls"}
ExportWords == {"csv", "txt", "json", "html", "xml", "sql", "jsonl", "xlsx"}
NoFormat == "None"

\* ImportFormat::from_str and ExportFormat::from_str: the variant, named by its
\* word, or None
FormatFromStr(words, s) ==
    IF \E w \in words : to_ascii_lowercase(s) = Chars(w)
    THEN CHOOSE w \in words : to_ascii_lowercase(s) = Chars(w)
    ELSE NoFormat

\* Option::unwrap_or(Csv)
UnwrapOrCsv(format) == IF format = NoFormat THEN "csv" ELSE format

FormatCommands == {"import_table", "export_table", "export_query_result"}
WordsOf(command) == IF command = "import_table" THEN ImportWords ELSE ExportWords

FormatStrings ==
    {Chars(w) : w \in ImportWords \cup ExportWords \cup {"pdf", ""}}
      \cup {to_ascii_uppercase(Chars(w)) : w \in ImportWords \cup ExportWords}
      \cup {<<" ">> \o Chars("csv"), Chars("csv") \o <<" ">>}

FormatCall(command, format, path_empty) ==
    [pc |-> "format", op |-> command, format |-> format, path_empty |-> path_empty]

InitFormat ==
    /\ POOL_ID_COUNTER = FirstId
    /\ CONN_ID_COUNTER = FirstId
    /\ pools = {}
    /\ poolObj = [p \in PoolIds |-> NoPool]
    /\ in_use = [p \in PoolIds |-> [h \in ConnIds |-> NoState]]
    /\ connection_key_to_pool_id = [k \in Keys |-> 0]
    /\ tasks = {}
    /\ ka = [h \in ConnIds |-> NoTask]
    /\ \E command \in FormatCommands, format \in FormatStrings, path_empty \in BOOLEAN :
          th = [t \in Threads |-> IF t = "t1" THEN FormatCall(command, format, path_empty)
                                  ELSE Idle]
    /\ released = {}
    /\ issued = <<>>
    /\ ret = NoCall

\* the commands import_table, export_table and export_query_result: the format
\* is parsed, with Csv for a word that is none; export_query_result refuses an
\* empty path; then the import or export of the format runs, reading the file
\* into the table or writing the file, and succeeds or fails
FormatCommand(t) ==
    LET me == th[t]
        used == UnwrapOrCsv(FormatFromStr(WordsOf(me.op), me.format))
    IN  /\ me.pc = "format"
        /\ th' = [th EXCEPT ![t] = Idle]
        /\ IF me.op = "export_query_result" /\ me.path_empty
           THEN ret' = [op |-> me.op, format |-> me.format, used |-> used, res |-> "PathEmpty",
                        ran |-> FALSE]
           ELSE \E res \in {"Ok", "Err"} :
                   ret' = [op |-> me.op, format |-> me.format, used |-> used, res |-> res,
                           ran |-> TRUE]
        /\ ImportUnchanged

NextFormat == \E t \in Threads : FormatCommand(t)

SpecFormat == InitFormat /\ [][NextFormat]_vars

\* C25: import_table, export_table and export_query_result, called with a
\* format string outside the supported set of the command, return an error
\* and run no import or export, so that no data is read or written.
C25_UnknownFormatRejected ==
    (ret.op \in FormatCommands /\ FormatFromStr(WordsOf(ret.op), ret.format) = NoFormat)
       => ~ret.ran /\ ret.res # "Ok"

\* C26: a keepalive tick for handle h ends the task if the pool or the handle
\* is gone; leaves the handle's ConnectionState as it is and the task waiting
\* for the next tick if the probe succeeds or fails with an error that is not
\* a lost connection; and, if the probe finds the connection lost and the
\* safety gate blocks, removes the handle from the pool and ends the task
\* (the removal follows the probe, and it does follow).
C26_KeepaliveTick ==
    /\ [][\A h \in ConnIds :
            LET p == ka[h].pool
            IN  /\ KeepaliveTick(h) =>
                     IF p \notin pools \/ ~Registered(p, h) THEN ka'[h].st = "dead"
                     ELSE IF in_use'[p][h].conn.alive
                     THEN in_use'[p][h] = in_use[p][h] /\ ka'[h].st = "waiting"
                     ELSE /\ [in_use'[p][h] EXCEPT !.conn = in_use[p][h].conn] = in_use[p][h]
                          /\ ~can_safely_reconnect(in_use[p][h])[1] => ka'[h].st = "blocked"
                /\ (KeepaliveRemove(h) /\ ka[h].st = "blocked") =>
                     ~Registered(p, h)' /\ ka'[h].st = "dead"]_vars
    /\ \A h \in ConnIds : (ka[h].st = "blocked") ~> (ka[h].st = "dead" /\ ~Registered(ka[h].pool, h))

\* the task of a handle of a pool without auto-reconnect has ended by itself
\* after it took the handle out of the pool, which is still open
C26_Witness ==
    \E h \in ConnIds :
       /\ ka[h].st = "dead" /\ h \in tasks /\ h \notin released
       /\ ka[h].pool \in pools /\ AutoReconnectOff(ka[h].pool) /\ ~Closed(ka[h].pool)
       /\ ~Registered(ka[h].pool, h)

Quiescent == \A t \in Threads : th[t].pc = "idle"

\* C27: in every state where no call is in progress, each registered handle
\* has its keepalive task, started for the pool it is registered in and not
\* ended, and no keepalive task runs for a handle that is not registered.
C27_OneTaskPerHandle ==
    Quiescent =>
       /\ \A p \in PoolIds, h \in ConnIds :
             Registered(p, h) => h \in tasks /\ Running(h) /\ ka[h].pool = p
       /\ \A h \in ConnIds : Running(h) => Registered(ka[h].pool, h)

\* C28: the step in which a with_connection call returns has incremented the
\* handle's use_count by exactly one if the call returns Ok, on the first
\* attempt or on the retry, and has left it as it was if the call returns an
\* error (no other step of a call increments it).
C28_UseCountPerCall ==
    [][(ret'.op = "with_connection" /\ in_use[ret'.pool][ret'.conn] # NoState
          /\ in_use'[ret'.pool][ret'.conn] # NoState)
         => LET before == in_use[ret'.pool][ret'.conn].use_count
                after == in_use'[ret'.pool][ret'.conn].use_count
            IN  IF ret'.res = "Ok" THEN after = before + 1 ELSE after = before]_vars

\* the entry of handle h of pool p is the same before and after the step,
\* whatever the step found out about the socket of its connection
EntryKept(p, h) ==
    /\ in_use[p][h] # NoState
    /\ in_use'[p][h] # NoState
    /\ [in_use'[p][h] EXCEPT !.conn.alive = in_use[p][h].conn.alive] = in_use[p][h]

\* C29: when with_connection meets a connection-lost error and the safety gate
\* blocks, at the probe ("Blocked") or after the action ("LostBlocked"), the
\* error it returns names the reason the gate gave (never "none": at the probe
\* the reason of the gate evaluated up front, after the action the reason of the
\* gate evaluated again), the step acquires nothing from the pool and puts
\* nothing back (a call blocked at the probe has acquired nothing at all), and
\* the handle's entry stays in the map exactly as it was.
C29_GateBlocked ==
    [][(ret'.op = "with_connection" /\ ret'.res \in {"Blocked", "LostBlocked"})
         => \E t \in Threads :
              /\ th[t].pc \in {"probe", "gate2"} /\ th'[t].pc = "idle"
              /\ ret'.reason.kind # "none"
              /\ ret'.reason = IF ret'.res = "Blocked" THEN th[t].reason
                               ELSE can_safely_reconnect(in_use[ret'.pool][ret'.conn])[2]
              /\ ret'.res = "Blocked" => ret'.acq = 0 /\ ret'.calls = 0
              /\ ret'.res = "LostBlocked" => ret'.calls = 1
              /\ poolObj' = poolObj
              /\ EntryKept(ret'.pool, ret'.conn)]_vars

\* a call blocked after its action by an open transaction or temporary tables
C29_Witness ==
    /\ ret.op = "with_connection"
    /\ ret.res = "LostBlocked"
    /\ ret.reason.kind \in {"transaction", "temporary_tables"}
    /\ Registered(ret.pool, ret.conn)

\* C30: only connection-lost errors are recovered locally. A probe error that
\* is not a lost connection is returned by the probe's own step
\* ("HealthCheckFailed"): the action has not been invoked, nothing has been
\* acquired, the pool and the entry are as they were. An action error that is
\* not a lost connection is returned by the action's own step: the first
\* action's ("ActionError") after one invocation, the retry's ("RetryFailed")
\* after two, with the pool as it was and no acquire after it. And a probe that
\* does not find the connection lost never leads to a reconnect: it goes on to
\* the action or returns.
C30_OnlyLostRecovered ==
    [][\A t \in Threads :
         /\ (th[t].pc # "idle" /\ th'[t].pc = "idle" /\ ret'.op = "with_connection")
              => /\ ret'.res = "HealthCheckFailed"
                      => /\ th[t].pc = "probe"
                         /\ ret'.calls = 0 /\ ret'.acq = 0
                         /\ poolObj' = poolObj
                         /\ EntryKept(ret'.pool, ret'.conn)
                 /\ ret'.res = "ActionError"
                      => /\ th[t].pc = "action1"
                         /\ ret'.calls = 1 /\ ret'.acq = th[t].acq
                         /\ poolObj' = poolObj
                         /\ EntryKept(ret'.pool, ret'.conn)
                 /\ ret'.res = "RetryFailed"
                      => /\ th[t].pc = "action2"
                         /\ ret'.calls = 2 /\ ret'.acq = th[t].acq
                         /\ poolObj' = poolObj
         /\ (/\ th[t].pc = "probe" /\ th'[t] # th[t]
             /\ in_use'[th[t].pool][th[t].conn] # NoState
             /\ in_use'[th[t].pool][th[t].conn].conn.alive)
              => /\ th'[t].pc \in {"action1", "idle"}
                 /\ th'[t].pc = "idle" => ret'.res = "HealthCheckFailed"]_vars

\* a first action whose error is not a lost connection, returned after one invocation
C30_Witness ==
    /\ ret.op = "with_connection"
    /\ ret.res = "ActionError"
    /\ ret.calls = 1
    /\ Registered(ret.pool, ret.conn)

\* ------------------------------------ pool.rs: creating a raw connection
\* sanitize_mysql_token: Some(trimmed) as a one-element sequence, None as <<>>
sanitize_mysql_token(value) ==
    LET trimmed == trim(value)
    IN  IF trimmed = <<>> THEN <<>>
        ELSE IF \A k \in 1..Len(trimmed) : is_alphanumeric(trimmed[k]) \/ trimmed[k] \in {"_", "-"}
        THEN <<trimmed>>
        ELSE <<>>

\* ssl_mode_to_session_value
ssl_mode_to_session_value(mode) ==
    CASE mode = "Disabled" -> "DISABLED"
      [] mode = "Preferred" -> "PREFERRED"
      [] mode = "Required" -> "REQUIRED"
      [] mode = "VerifyCa" -> "VERIFY_CA"
      [] mode = "VerifyIdentity" -> "VERIFY_IDENTITY"

\* the text every ssl_mode statement starts with, in words
SslModePrefix == <<"SET", "SESSION", "ssl_mode">>

\* build_session_init_sql: the statements, each the words of its format string
\* and the values formatted into it. An Option<String> of the configuration is
\* NoneStr or a string, the Option<u64> timeout_seconds a sequence of no or one
\* number.
build_session_init_sql(config) ==
    LET use == IF config.current_database # NoneStr /\ trim(config.current_database) # <<>>
               THEN <<[text |-> <<"USE">>, arg |-> config.current_database]>> ELSE <<>>
        charset == IF config.charset = NoneStr THEN <<>> ELSE sanitize_mysql_token(config.charset)
        collation == IF config.collation = NoneStr THEN <<>>
                     ELSE sanitize_mysql_token(config.collation)
        names == IF charset = <<>> THEN <<>>
                 ELSE IF collation # <<>>
                 THEN <<[text |-> <<"SET", "NAMES", "COLLATE">>, arg |-> <<charset[1], collation[1]>>]>>
                 ELSE <<[text |-> <<"SET", "NAMES">>, arg |-> <<charset[1]>>]>>
        timeout == IF config.timeout_seconds # <<>> /\ config.timeout_seconds[1] > 0
                   THEN <<[text |-> <<"SET", "SESSION", "wait_timeout", "=">>,
                           arg |-> config.timeout_seconds[1]]>>
                   ELSE <<>>
        mode == parse_ssl_mode(config.ssl_mode)
        ssl == IF mode # "Disabled"
               THEN <<[text |-> SslModePrefix \o <<"=">>, arg |-> ssl_mode_to_session_value(mode)]>>
               ELSE <<>>
    IN  use \o names \o timeout \o ssl

\* the plain-TCP options kept beside the TLS ones: None is <<>>
PlainOpts == [ssl_opts |-> <<>>]
FallbackInEveryMode(ssl_mode) == <<PlainOpts>>
\* ConnectionPool::new and test_connection: fallback_opts
FallbackOpts(ssl_mode) == IF ssl_mode = "Preferred" THEN <<PlainOpts>> ELSE <<>>

CreateConfigs ==
    [current_database : {NoneStr, <<" ">>, <<"a">>},
     charset : {NoneStr, <<"u">>, <<"u", ";">>},
     collation : {NoneStr, <<"c">>},
     timeout_seconds : {<<>>, <<0>>, <<30>>},
     ssl_mode : SslModes,
     ssl_ca_path : {NoneStr, <<"p">>},
     ssl_cert_path : {NoneStr},
     ssl_key_path : {NoneStr}]

\* the locals of a connection being made: `opened` lists the Conn::new attempts
\* (options, outcome), `log` the session-init statements sent (statement, outcome)
CreateCall(op, config) ==
    [pc |-> "new", op |-> op, config |-> config, opts |-> PlainOpts, fallback_opts |-> <<>>,
     init_sqls |-> <<>>, opened |-> <<>>, log |-> <<>>]

InitCreate ==
    /\ POOL_ID_COUNTER = FirstId
    /\ CONN_ID_COUNTER = FirstId
    /\ pools = {}
    /\ poolObj = [p \in PoolIds |-> NoPool]
    /\ in_use = [p \in PoolIds |-> [h \in ConnIds |-> NoState]]
    /\ connection_key_to_pool_id = [k \in Keys |-> 0]
    /\ tasks = {}
    /\ ka = [h \in ConnIds |-> NoTask]
    /\ \E op \in {"create", "test_connection"}, config \in CreateConfigs :
          th = [t \in Threads |-> IF t = "t1" THEN CreateCall(op, config) ELSE Idle]
    /\ released = {}
    /\ issued = <<>>
    /\ ret = NoCall

\* the call returns: `conn` is the options of the connection it made (<<>>:
\* none), `pooled` whether that connection is handed to the pool
CreateReturn(t, me, res, err, conn) ==
    /\ th' = [th EXCEPT ![t] = Idle]
    /\ ret' = [op |-> me.op, config |-> me.config, res |-> res, err |-> err,
               opened |-> me.opened, log |-> me.log, conn |-> conn,
               pooled |-> res = "Ok" /\ me.op = "create"]

\* ConnectionPool::new (test_connection): the options, the fallback options
\* and the session-init statements of the manager
ManagerNew(t) ==
    LET me == th[t]
        ssl_mode == parse_ssl_mode(me.config.ssl_mode)
        r == apply_ssl_mode_to_builder(me.config)
    IN  /\ me.pc = "new"
        /\ IF ~r.ok
           THEN CreateReturn(t, me, "Err", r.err, <<>>)
           ELSE /\ th' = [th EXCEPT ![t] = [me EXCEPT !.pc = "connect",
                             !.opts = [ssl_opts |-> r.ssl_opts],
                             !.fallback_opts = FallbackOpts(ssl_mode),
                             !.init_sqls = build_session_init_sql(me.config)]]
                /\ ret' = NoCall
        /\ ImportUnchanged

\* MysqlManager::create (test_connection): Conn::new with the options, and
\* with the fallback options if there are any and the first attempt failed
CreateConnect(t) ==
    LET me == th[t]
    IN  /\ me.pc = "connect"
        /\ \E primary \in BOOLEAN :
             LET first == [me EXCEPT !.opened = Append(@, [opts |-> me.opts, ok |-> primary])]
             IN  IF primary
                 THEN th' = [th EXCEPT ![t] = [first EXCEPT !.pc = "init"]] /\ ret' = NoCall
                 ELSE IF me.fallback_opts = <<>>
                 THEN CreateReturn(t, first, "Err", "primary", <<>>)
                 ELSE \E fallback \in BOOLEAN :
                        LET second == [first EXCEPT !.opened =
                                          Append(@, [opts |-> me.fallback_opts[1], ok |-> fallback]),
                                                    !.opts = me.fallback_opts[1]]
                        IN  IF fallback
                            THEN /\ th' = [th EXCEPT ![t] = [second EXCEPT !.pc = "init"]]
                                 /\ ret' = NoCall
                            ELSE CreateReturn(t, second, "Err", "primary", <<>>)
        /\ ImportUnchanged

\* a loop over the statements that goes on after every failure
CreateInitSkippingFailures(t) ==
    LET me == th[t]
        k == Len(me.log) + 1
    IN  /\ me.pc = "init"
        /\ IF k > Len(me.init_sqls)
           THEN CreateReturn(t, me, "Ok", "none", <<me.opts>>)
           ELSE \E ok \in BOOLEAN :
                  /\ th' = [th EXCEPT ![t].log = Append(@, [sql |-> me.init_sqls[k], ok |-> ok])]
                  /\ ret' = NoCall
        /\ ImportUnchanged

\* MysqlManager::create (test_connection): one round of the loop over
\* init_sqls, or its end
CreateInit(t) ==
    LET me == th[t]
        k == Len(me.log) + 1
    IN  /\ me.pc = "init"
        /\ IF k > Len(me.init_sqls)
           THEN CreateReturn(t, me, "Ok", "none", <<me.opts>>)
           ELSE \E ok \in BOOLEAN :
                  LET sql == me.init_sqls[k]
                      sent == [me EXCEPT !.log = Append(@, [sql |-> sql, ok |-> ok])]
                  IN  IF ~ok /\ ~starts_with(sql.text, SslModePrefix)
                      THEN CreateReturn(t, sent, "Err", "init", <<>>)
                      ELSE th' = [th EXCEPT ![t] = sent] /\ ret' = NoCall
        /\ ImportUnchanged

NextCreate ==
    \/ \E t \in Threads : ManagerNew(t)
    \/ \E t \in Threads : CreateConnect(t)
    \/ \E t \in Threads : CreateInit(t)

SpecCreate == InitCreate /\ [][NextCreate]_vars

\* the place of a session-init statement in the order USE, SET NAMES,
\* SET SESSION wait_timeout, SET SESSION ssl_mode
StatementRank(sql) ==
    IF sql.text[1] = "USE" THEN 1
    ELSE IF sql.text[2] = "NAMES" THEN 2
    ELSE IF sql.text[3] = "wait_timeout" THEN 3
    ELSE 4

SameStatement(a, b) == a.text = b.text /\ a.arg = b.arg

CreateReturned == ret.op \in {"create", "test_connection"}

\* C31: a raw connection that was opened is sent the session-init statements
\* in list order (USE, SET NAMES, SET SESSION wait_timeout, SET SESSION
\* ssl_mode), each at most once and, when the creation succeeds, each exactly
\* once. A failed statement other than the ssl_mode one is the last statement
\* sent: the creation fails with that statement's error and no connection
\* enters the pool. A failed ssl_mode statement is passed over, and a creation
\* with no other failure succeeds.
C31_SessionInit ==
    (CreateReturned /\ \E k \in 1..Len(ret.opened) : ret.opened[k].ok)
       => LET sqls == build_session_init_sql(ret.config)
              n == Len(ret.log)
              Fatal(k) == ~ret.log[k].ok /\ StatementRank(ret.log[k].sql) # 4
          IN  /\ \A i, j \in 1..Len(sqls) : i < j => StatementRank(sqls[i]) < StatementRank(sqls[j])
              /\ n <= Len(sqls)
              /\ \A k \in 1..n : SameStatement(ret.log[k].sql, sqls[k])
              /\ \A k \in 1..n : Fatal(k) => k = n
              /\ IF n > 0 /\ Fatal(n)
                 THEN ret.res = "Err" /\ ret.err = "init" /\ ~ret.pooled /\ ret.conn = <<>>
                 ELSE ret.res = "Ok" /\ n = Len(sqls) /\ ret.conn # <<>>
                      /\ (ret.op = "create" => ret.pooled)

\* a creation that succeeded although its ssl_mode statement failed, after
\* three statements that did not
C31_Witness ==
    /\ CreateReturned
    /\ ret.op = "create"
    /\ ret.res = "Ok" /\ ret.pooled
    /\ Len(ret.log) = 4
    /\ ~ret.log[4].ok

\* C40: a connection without TLS options is attempted after a failed TLS
\* attempt only when the parsed SSL mode is Preferred. With Required, VerifyCa
\* or VerifyIdentity every attempt carries TLS options, a failed TLS attempt is
\* the only attempt and the creation (or the connection test) fails with no
\* connection made and none handed to the pool.
C40_PlainFallbackOnlyPreferred ==
    CreateReturned
       => LET mode == parse_ssl_mode(ret.config.ssl_mode)
              n == Len(ret.opened)
          IN  /\ n <= 2
              /\ n = 2 => /\ mode = "Preferred"
                          /\ ~ret.opened[1].ok
                          /\ ret.opened[1].opts.ssl_opts # <<>>
                          /\ ret.opened[2].opts = PlainOpts
              /\ mode \in {"Required", "VerifyCa", "VerifyIdentity"}
                    => /\ \A k \in 1..n : ret.opened[k].opts.ssl_opts # <<>>
                       /\ (n > 0 /\ ~ret.opened[1].ok)
                             => ret.res = "Err" /\ ret.conn = <<>> /\ ~ret.pooled /\ n = 1
                       /\ ret.conn # <<>> => ret.conn[1].ssl_opts # <<>>

\* a pool of mode Required whose TLS attempt failed
C40_Witness ==
    /\ CreateReturned
    /\ ret.op = "create"
    /\ parse_ssl_mode(ret.config.ssl_mode) = "Required"
    /\ Len(ret.opened) = 1
    /\ ~ret.opened[1].ok
    /\ ret.res = "Err"

\* --------------------------------- import.rs: headers, columns and errors
\* an error message: its wording, and the row number written into it (<<>>:
\* the message has none)
NoError == [text |-> "none", row |-> <<>>]
ErrorText(text) == [text |-> text, row |-> <<>>]
RowError(text, row_index) == [text |-> text, row |-> <<row_index>>]

\* str::trim_matches('"')
trim_matches_quote(s) ==
    LET ns == {k \in 1..Len(s) : s[k] # Quote}
    IN  IF ns = {} THEN <<>> ELSE SubSeq(s, MinOf(ns), MaxOf(ns))

\* the header loop and the two checks after it, of
\* build_column_mapping_from_csv_header, do_import_txt and do_import_excel:
\* the error, or NoError. Only the CSV loop keeps a header_set.
build_column_mapping(format, headers, columns) ==
    LET name(k) == normalize_column_name(IF format = "txt" THEN trim_matches_quote(headers[k])
                                         ELSE headers[k])
        bad == {k \in 1..Len(headers) :
                  \/ name(k) = <<>>
                  \/ format = "csv" /\ \E j \in 1..(k - 1) : name(j) = name(k)}
        header_map == {name(k) : k \in 1..Len(headers)}
    IN  IF headers = <<>> /\ format \in {"csv", "txt"} THEN ErrorText("header is empty")
        ELSE IF bad # {}
        THEN IF name(MinOf(bad)) = <<>> THEN ErrorText("header contains empty column name")
             ELSE ErrorText("header contains duplicate column")
        ELSE IF Cardinality(header_map) # Len(columns) THEN ErrorText("Column count mismatch")
        ELSE IF \E c \in 1..Len(columns) : normalize_column_name(columns[c].name) \notin header_map
        THEN ErrorText("missing column")
        ELSE NoError

\* the error of the data row at `index` (from 0) of a CSV, TXT or Excel
\* source, or NoError: parse_value's message is passed on as it is
RecordError(format, values_str, headers, columns, index) ==
    LET values == build_values(values_str, headers, columns)
    IN  IF format = "csv" /\ Len(values_str) # Len(headers)
        THEN RowError("column mismatch", index + 2)
        ELSE IF \E c \in 1..Len(columns) : ~values[c].ok THEN ErrorText("Invalid integer")
        ELSE NoError

\* the Result of an import and the rows it leaves in the table: an Err drops
\* the transaction
ImportOutcome(err, rows) ==
    IF err = NoError THEN [res |-> "Ok", err |-> NoError, rows |-> rows]
    ELSE [res |-> "Err", err |-> err, rows |-> TransactionDrop(FALSE, rows)]

\* do_import_csv, do_import_txt and do_import_excel from the header and the
\* records read from the source
import_records(format, headers, records, columns) ==
    LET mapping == build_column_mapping(format, headers, columns)
        error(r) == RecordError(format, records[r], headers, columns, r - 1)
        bad == {r \in 1..Len(records) : error(r) # NoError}
    IN  IF mapping # NoError THEN ImportOutcome(mapping, <<>>)
        ELSE IF bad # {}
        THEN ImportOutcome(error(MinOf(bad)),
                           [r \in 1..(MinOf(bad) - 1) |->
                               [c \in 1..Len(columns) |->
                                   build_values(records[r], headers, columns)[c].value]])
        ELSE ImportOutcome(NoError,
                           [r \in 1..Len(records) |->
                               [c \in 1..Len(columns) |->
                                   build_values(records[r], headers, columns)[c].value]])

\* import_json_rows and build_values_from_json on the objects of a source:
\* json_to_value's message has the row number index + 1
import_json_rows(objs, columns) ==
    LET values(r) == [c \in 1..Len(columns) |->
                         json_to_value(JsonGet(objs[r].members, columns[c]), columns[c])]
        bad == {r \in 1..Len(objs) : \E c \in 1..Len(columns) : ~values(r)[c].ok}
        upto == IF bad = {} THEN Len(objs) ELSE MinOf(bad) - 1
    IN  ImportOutcome(IF bad = {} THEN NoError ELSE RowError("invalid integer", MinOf(bad)),
                      [r \in 1..upto |-> [c \in 1..Len(columns) |-> values(r)[c].value]])

\* the sources: a header of one to three names and one or two data rows
MaxHeaders == 3
HeaderChoices == {<<"a">>, <<"A">>, <<"b">>, <<"c">>}
CellChoices == {<<"1">>, <<"x">>}
TargetColumns == <<[name |-> <<"a">>, data_type |-> "int", nullable |-> FALSE],
                   [name |-> <<"b">>, data_type |-> "varchar", nullable |-> TRUE]>>
SourceFormats == {"csv", "txt", "xlsx", "jsonl"}

\* the text of a CSV or TXT source, and of a JSONL source whose objects have
\* the headers as keys
SourceFile(format, headers, records) ==
    CASE format = "csv" ->
           WriteLines(<<JoinBetween(headers, <<",">>)>>
                         \o [r \in 1..Len(records) |-> JoinBetween(records[r], <<",">>)])
      [] format = "txt" ->
           WriteLines(<<JoinBetween(headers, <<"\t">>)>>
                         \o [r \in 1..Len(records) |-> JoinBetween(records[r], <<"\t">>)])
      [] format = "jsonl" ->
           WriteLines([r \in 1..Len(records) |->
                         JsonObject([c \in 1..Len(headers) |-> [name |-> headers[c]]],
                                    [c \in 1..Len(headers) |-> Bytes(records[r][c])])])
      [] OTHER -> <<>>

FileCall(format, headers, records) ==
    [pc |-> "file", op |-> "import_table", format |-> format, headers |-> headers,
     records |-> records, columns |-> TargetColumns]

InitFile ==
    /\ POOL_ID_COUNTER = FirstId
    /\ CONN_ID_COUNTER = FirstId
    /\ pools = {}
    /\ poolObj = [p \in PoolIds |-> NoPool]
    /\ in_use = [p \in PoolIds |-> [h \in ConnIds |-> NoState]]
    /\ connection_key_to_pool_id = [k \in Keys |-> 0]
    /\ tasks = {}
    /\ ka = [h \in ConnIds |-> NoTask]
    /\ \E format \in SourceFormats, n \in 1..MaxHeaders :
         \E headers \in [1..n -> HeaderChoices], last \in [1..n -> CellChoices], more \in BOOLEAN :
            th = [t \in Threads |->
                    IF t = "t1"
                    THEN FileCall(format, headers,
                                  IF more THEN <<[c \in 1..n |-> <<"1">>], last>> ELSE <<last>>)
                    ELSE Idle]
    /\ released = {}
    /\ issued = <<>>
    /\ ret = NoCall

\* import_table of a source into the empty table: the source is read by the
\* reader of its format, and the Result becomes an ImportResult
ImportFile(t) ==
    LET me == th[t]
        file == SourceFile(me.format, me.headers, me.records)
        r == CASE me.format = "csv" ->
                    import_records("csv", Head(CsvRecords(file)), Tail(CsvRecords(file)), me.columns)
               [] me.format = "txt" ->
                    import_records("txt", parse_txt_line(Head(LinesFrom(file, 1))),
                                   [k \in 1..Len(me.records) |->
                                       parse_txt_line(LinesFrom(file, 1)[k + 1])], me.columns)
               [] me.format = "xlsx" ->
                    import_records("xlsx", me.headers, me.records, me.columns)
               [] me.format = "jsonl" ->
                    import_json_rows([k \in 1..Len(me.records) |->
                                         JsonFromStr(trim(LinesFrom(file, 1)[k]))], me.columns)
    IN  /\ me.pc = "file"
        /\ th' = [th EXCEPT ![t] = Idle]
        /\ ret' = [op |-> "import_table", format |-> me.format, headers |-> me.headers,
                   records |-> me.records, columns |-> me.columns, res |-> r.res,
                   table |-> r.rows,
                   result |-> ImportResult(r.res, Len(r.rows), r.err)]
        /\ ImportUnchanged

NextFile == \E t \in Threads : ImportFile(t)

SpecFile == InitFile /\ [][NextFile]_vars

FileImported == ret.op = "import_table"
NormalisedHeaders == [k \in 1..Len(ret.headers) |-> normalize_column_name(ret.headers[k])]

\* C32: an import of a CSV, TXT or XLSX source whose headers contain two names
\* that are equal after trim and lower-casing fails, and the table has no row.
C32_DuplicateHeadersRejected ==
    (/\ FileImported
     /\ ret.format \in {"csv", "txt", "xlsx"}
     /\ \E j, k \in 1..Len(ret.headers) : j < k /\ NormalisedHeaders[j] = NormalisedHeaders[k])
       => ~ret.result.success /\ ret.table = <<>>

ColumnNames == {normalize_column_name(TargetColumns[c].name) : c \in 1..Len(TargetColumns)}
\* the headers are non-empty names, no two of them equal
HeadersDistinct == Cardinality({NormalisedHeaders[k] : k \in 1..Len(NormalisedHeaders)})
                      = Len(ret.headers)

\* C33: an import, in any format, of a source whose number of headers (for
\* JSONL: of keys of its rows) differs from the number of columns of the table
\* fails with 'Column count mismatch', and one with as many headers as columns
\* of which some column's normalised name is none fails with a 'missing
\* column' error; in both cases the table has no row. (Sources whose headers are
\* distinct: a duplicate is another error.)
C33_HeaderCountAndNames ==
    (FileImported /\ HeadersDistinct)
       => /\ Len(ret.headers) # Len(ret.columns)
               => /\ ~ret.result.success
                  /\ ret.result.error.text = "Column count mismatch"
                  /\ ret.table = <<>>
          /\ (/\ Len(ret.headers) = Len(ret.columns)
              /\ \E name \in ColumnNames : \A k \in 1..Len(ret.headers) : NormalisedHeaders[k] # name)
               => /\ ~ret.result.success
                  /\ ret.result.error.text = "missing column"
                  /\ ret.table = <<>>

\* the data rows (header = row 1, first data row = row 2) with a cell that is
\* no number
RowsWithBadCell ==
    {r + 1 : r \in {q \in 1..Len(ret.records) :
                      \E c \in 1..Len(ret.records[q]) : ParseI64(ret.records[q][c]).ok = FALSE}}

\* C34: the error of an ImportResult that reports a value that does not convert
\* (here: an invalid integer) carries the number of the offending row, the
\* header being row 1 and the first data row row 2.
C34_CoercionErrorHasRow ==
    (/\ FileImported
     /\ ~ret.result.success
     /\ ret.result.error.text \in {"Invalid integer", "invalid integer"})
       => /\ ret.result.error.row # <<>>
          /\ ret.result.error.row[1] \in RowsWithBadCell

\* ------------------------------------ pool.rs: fingerprints with a ':'
\* profiles whose user name, password, SSL mode or CA path contain the
\* separator of connection_key
ColonProfiles ==
    { Profile(<<"u">>, <<"p", ":", "w">>, NoDb, FALSE),
      Profile(<<"u", ":", "p">>, <<"w">>, NoDb, FALSE),
      Profile(<<"u">>, <<"p">>, NoDb, FALSE),
      [Profile(<<"u">>, <<"p">>, NoDb, FALSE) EXCEPT !.ssl_mode = <<"x">>, !.ssl_ca_path = <<"c">>],
      [Profile(<<"u">>, <<"p">>, NoDb, FALSE) EXCEPT !.ssl_mode = <<"x", ":", "c">>] }

InitKey ==
    /\ POOL_ID_COUNTER = FirstId
    /\ CONN_ID_COUNTER = FirstId
    /\ pools = {}
    /\ poolObj = [p \in PoolIds |-> NoPool]
    /\ in_use = [p \in PoolIds |-> [h \in ConnIds |-> NoState]]
    /\ connection_key_to_pool_id =
          [k \in {connection_key(from_profile(pr)) : pr \in ColonProfiles} |-> 0]
    /\ tasks = {}
    /\ ka = [h \in ConnIds |-> NoTask]
    /\ th = [t \in Threads |-> Idle]
    /\ released = {}
    /\ issued = <<>>
    /\ ret = NoCall

\* the pool manager called with these profiles
NextKey ==
    \/ \E t \in Callers, pr \in ColonProfiles : GetOrCreatePool(t, pr)
    \/ \E t \in Callers : GetOrCreatePoolCreate(t)
    \/ \E t \in Callers : CreatePoolRegister(t)
    \/ \E t \in Callers, p \in PoolIds : ClosePool(t, p)
    \/ \E t \in Callers : ClosePoolRemove(t)

SpecKey == InitKey /\ [][NextKey]_vars

\* C35: a get_or_create_pool call that is given a pool that exists is given
\* one that was built from a configuration with its own fingerprint, equal in
\* host, port, user, password, ssl_mode and ssl_ca_path: profiles with
\* different credentials never share a pool.
C35_SamePoolSameFingerprint ==
    [][\A t \in Threads, pr \in ColonProfiles :
         (GetOrCreatePool(t, pr) /\ ret'.op = "get_or_create_pool" /\ ret'.res = "Ok")
            => poolObj[ret'.pool].opts = Fingerprint(from_profile(pr))]_vars

\* C36: under any interleaving of get_or_create_pool, create_pool and
\* close_pool calls, no two registered pools that get_or_create_pool calls
\* built and returned have the same fingerprint, and every such pool is the
\* one the fingerprint map gives for its fingerprint.
C36_OnePoolPerFingerprint ==
    \A p \in PoolIds :
       GocReturned(p)
          => /\ connection_key_to_pool_id[poolObj[p].key] = p
             /\ \A q \in PoolIds : GocReturned(q) /\ poolObj[q].opts = poolObj[p].opts => q = p

\* ---------------------------------------------------------------------
\* XML export and import of one field value

\* str::replace: every non-overlapping occurrence of from, leftmost first
RECURSIVE replace(_, _, _)
replace(s, from, to) ==
    IF Len(s) < Len(from) \/ s = <<>> THEN s
    ELSE IF starts_with(s, from)
         THEN to \o replace(SubSeq(s, Len(from) + 1, Len(s)), from, to)
         ELSE <<Head(s)>> \o replace(Tail(s), from, to)

EntAmp == <<"&", "a", "m", "p", ";">>
EntLt == <<"&", "l", "t", ";">>
EntGt == <<"&", "g", "t", ";">>
EntQuot == <<"&", "q", "u", "o", "t", ";">>
EntApos == <<"&", "a", "p", "o", "s", ";">>

EntHtmlApos == <<"&", "#", "x", "2", "7", ";">>

\* the escaping of the HTML export, which writes the apostrophe as a
\* numeric character reference
XmlEscapeAsHtml(input) ==
    replace(replace(replace(replace(replace(input,
        <<"&">>, EntAmp), <<"<">>, EntLt), <<">">>, EntGt), <<"\"">>, EntQuot), <<"'">>, EntHtmlApos)

\* export.rs xml_escape: '&' first, then < > " '
xml_escape(input) ==
    replace(replace(replace(replace(replace(input,
        <<"&">>, EntAmp), <<"<">>, EntLt), <<">">>, EntGt), <<"\"">>, EntQuot), <<"'">>, EntApos)

\* import.rs xml_unescape: &amp; first, then &lt; &gt; &quot; &apos;
xml_unescape(input) ==
    replace(replace(replace(replace(replace(input,
        EntAmp, <<"&">>), EntLt, <<"<">>), EntGt, <<">">>), EntQuot, <<"\"">>), EntApos, <<"'">>)

\* str::find from a position: the index of the first occurrence of pat in
\* s at or after from, 0 for None
str_find(s, pat, from) ==
    LET hits == {k \in from..(Len(s) - Len(pat) + 1) : SubSeq(s, k, k + Len(pat) - 1) = pat}
    IN  IF hits = {} THEN 0 ELSE MinOf(hits)

\* do_export_xml: the lines of one RECORD with one column
XmlRecord(col, value) ==
    <<"\t", "<", "R", ">", "\n">>
       \o <<"\t", "\t", "<">> \o col \o <<">">> \o xml_escape(value) \o <<"<", "/">> \o col \o <<">", "\n">>
       \o <<"\t", "<", "/", "R", ">", "\n">>

\* do_import_xml: the first field of the first record of the content, as
\* <<name, value>>, or <<>> if the scan finds none
XmlFirstField(content) ==
    LET rs == str_find(content, <<"<", "R", ">">>, 1)
        start_idx == rs + 3
        re == IF rs = 0 THEN 0 ELSE str_find(content, <<"<", "/", "R", ">">>, start_idx)
        record_content == SubSeq(content, start_idx, re - 1)
        fs == str_find(record_content, <<"<">>, 1)
        fe == IF fs = 0 THEN 0 ELSE str_find(record_content, <<">">>, fs + 1)
        field_name == SubSeq(record_content, fs + 1, fe - 1)
        close_tag == <<"<", "/">> \o field_name \o <<">">>
        ve == IF fe = 0 THEN 0 ELSE str_find(record_content, close_tag, fe + 1)
    IN  IF rs = 0 \/ re = 0 \/ fs = 0 \/ fe = 0 \/ ve = 0 THEN <<>>
        ELSE <<field_name, xml_unescape(SubSeq(record_content, fe + 1, ve - 1))>>

MaxXmlLen == 4      \* characters of the exported value
XmlChars == {"&", "<", ">", "\"", "'", "a", "m", "p", "l", "t"}
XmlValues == UNION {[1..n -> XmlChars] : n \in 0..MaxXmlLen}

InitXml ==
    /\ POOL_ID_COUNTER = FirstId
    /\ CONN_ID_COUNTER = FirstId
    /\ pools = {}
    /\ poolObj = [p \in PoolIds |-> NoPool]
    /\ in_use = [p \in PoolIds |-> [h \in ConnIds |-> NoState]]
    /\ connection_key_to_pool_id = [k \in Keys |-> 0]
    /\ tasks = {}
    /\ ka = [h \in ConnIds |-> NoTask]
    /\ \E s \in XmlValues :
          th = [t \in Threads |-> IF t = "t1" THEN [pc |-> "xml", value |-> s] ELSE Idle]
    /\ released = {}
    /\ issued = <<>>
    /\ ret = NoCall

\* a value is exported to an XML file and the file is imported
XmlExportImport(t) ==
    LET me == th[t]
        content == XmlRecord(<<"c">>, me.value)
        field == XmlFirstField(content)
    IN  /\ me.pc = "xml"
        /\ th' = [th EXCEPT ![t] = Idle]
        /\ ret' = [op |-> "xml", value |-> me.value, escaped |-> xml_escape(me.value),
                   unescaped |-> xml_unescape(xml_escape(me.value)),
                   content |-> content, field |-> field]
        /\ ImportUnchanged

NextXml == \E t \in Threads : XmlExportImport(t)

SpecXml == InitXml /\ [][NextXml]_vars

\* C38: for every string over & < > " ' and letters, xml_unescape of its
\* xml_escape is the string, and the value the XML import reads from the
\* exported field is the value that was exported.
C38_XmlRoundTrip ==
    ret.op = "xml" => /\ ret.unescaped = ret.value
                      /\ ret.field = <<<<"c">>, ret.value>>

\* a value with '&' before a letter run that names an entity, and a '<',
\* has come back from the import
C38_Witness ==
    /\ ret.op = "xml"
    /\ ret.value = <<"&", "l", "t", "<">>
    /\ ret.escaped = EntAmp \o <<"l", "t">> \o EntLt
    /\ ret.field = <<<<"c">>, ret.value>>

\* ----------------------------------------- the text a split gives back
IsWordChar(c) == c = "a"
WordChars(s) == Len(SelectSeq(s, IsWordChar))
RECURSIVE SumWordChars(_)
SumWordChars(ts) == IF ts = <<>> THEN 0 ELSE WordChars(Head(ts)) + SumWordChars(Tail(ts))

\* the line is one the splitter takes as a DELIMITER command in this dialect:
\* after leading whitespace it begins with DELIMITER and has two tokens
IsCommandLine(line, db_type) ==
    /\ Support(db_type).delimiter_cmd
    /\ \E index \in 0..(Len(line) - 1) :
          /\ line_starts_with(line, index, KwDelimiter)
          /\ Len(split_whitespace(SubSeq(line, index + 1, Len(line)))) >= 2

\* the lines of the script that are not DELIMITER commands
TextLines(sql, db_type) ==
    LET NotCommand(line) == ~IsCommandLine(line, db_type)
    IN  SelectSeq(LinesFrom(sql, 1), NotCommand)

\* C37: the splitter drops no statement text. For a script made of DELIMITER,
\* blanks, line ends, "$$", ";" and the word "a" (one of them the script
\* with "a" on the line before a DELIMITER line), split with a delimiter
\* that has no "a" in it, every "a" outside the DELIMITER command lines is
\* in exactly one statement: the statements hold as many as those lines do.
C37_NoTextDropped ==
    (/\ SplitReturned
     /\ ret.sql \in DelimiterScripts \cup {TextBeforeDelimiterLine}
     /\ WordChars(ret.delimiter) = 0)
       => SumWordChars(ret.res) = SumWordChars(TextLines(ret.sql, ret.db_type))

\* ---------------------------------------------------------------------
\* executor.rs: the task executor. The Executor, its channel and its
\* worker threads are held in `ret`, the callers' positions in `th`.
ExecThreads == 2        \* thread_count of init
QueueCapacity == 3      \* queue_capacity of init
MaxTasks == 2           \* submit calls of a run
MaxShutdowns == 2       \* shutdown calls of a run
Workers == 1..ExecThreads
TaskIds == 1..MaxTasks

\* TaskMsg
Run(task) == [kind |-> "Run", task |-> task]
Stop == [kind |-> "Stop", task |-> 0]

\* init(core_threads, max_threads, queue_capacity): the channel is empty, the
\* executor open, every worker in recv
InitExec ==
    /\ POOL_ID_COUNTER = FirstId
    /\ CONN_ID_COUNTER = FirstId
    /\ pools = {}
    /\ poolObj = [p \in PoolIds |-> NoPool]
    /\ in_use = [p \in PoolIds |-> [h \in ConnIds |-> NoState]]
    /\ connection_key_to_pool_id = [k \in Keys |-> 0]
    /\ tasks = {}
    /\ ka = [h \in ConnIds |-> NoTask]
    /\ th = [t \in Threads |-> [pc |-> "idle", task |-> 0, left |-> 0]]
    /\ released = {}
    /\ issued = <<>>
    /\ ret = [op |-> "executor", closed |-> FALSE, queue |-> <<>>,
              workers |-> [w \in Workers |-> [pc |-> "recv", task |-> 0]],
              emitted |-> <<>>, result |-> [k \in TaskIds |-> "none"],
              next |-> 1, shutdowns |-> 0]

\* the Receiver is dropped when the last worker thread has left its loop
Disconnected == \A w \in Workers : ret.workers[w].pc = "done"

\* submit, up to the load of `closed`
Submit(t) ==
    /\ th[t].pc = "idle"
    /\ ret.next <= MaxTasks
    /\ IF ret.closed
       THEN /\ ret' = [ret EXCEPT !.result[ret.next] = "Executor is closed", !.next = @ + 1]
            /\ th' = th
       ELSE /\ ret' = [ret EXCEPT !.next = @ + 1]
            /\ th' = [th EXCEPT ![t] = [pc |-> "try_send", task |-> ret.next, left |-> 0]]
    /\ ImportUnchanged

\* submit: sender.try_send(TaskMsg::Run(task)) and the result of the call
SubmitTrySend(t) ==
    /\ th[t].pc = "try_send"
    /\ ret' = CASE Disconnected -> [ret EXCEPT !.result[th[t].task] = "Executor unavailable"]
                [] ~Disconnected /\ Len(ret.queue) >= QueueCapacity ->
                      [ret EXCEPT !.result[th[t].task] = "Executor queue full"]
                [] OTHER -> [ret EXCEPT !.queue = Append(@, Run(th[t].task)),
                                        !.result[th[t].task] = "Ok"]
    /\ th' = [th EXCEPT ![t] = [pc |-> "idle", task |-> 0, left |-> 0]]
    /\ ImportUnchanged

\* shutdown: closed.store(true), with thread_count Stop messages to send
Shutdown(t) ==
    /\ th[t].pc = "idle"
    /\ ret.shutdowns < MaxShutdowns
    /\ ret' = [ret EXCEPT !.closed = TRUE, !.shutdowns = @ + 1]
    /\ th' = [th EXCEPT ![t] = [pc |-> "send_stop", task |-> 0, left |-> ExecThreads]]
    /\ ImportUnchanged

\* shutdown: one sender.send(TaskMsg::Stop); the call waits while the queue
\* is full and its error, when the Receiver is gone, is ignored
ShutdownSend(t) ==
    /\ th[t].pc = "send_stop"
    /\ Disconnected \/ Len(ret.queue) < QueueCapacity
    /\ ret' = IF Disconnected THEN ret ELSE [ret EXCEPT !.queue = Append(@, Stop)]
    /\ th' = [th EXCEPT ![t] = IF th[t].left = 1
                                THEN [pc |-> "idle", task |-> 0, left |-> 0]
                                ELSE [pc |-> "send_stop", task |-> 0, left |-> th[t].left - 1]]
    /\ ImportUnchanged

\* worker_loop: recv under the lock; Stop ends the loop
WorkerRecv(w) ==
    /\ ret.workers[w].pc = "recv"
    /\ ret.queue # <<>>
    /\ ret' = [ret EXCEPT !.queue = Tail(@),
                          !.workers[w] = IF Head(ret.queue).kind = "Run"
                                         THEN [pc |-> "emit", task |-> Head(ret.queue).task]
                                         ELSE [pc |-> "done", task |-> 0]]
    /\ UNCHANGED th
    /\ ImportUnchanged

\* worker_loop: app_handle.emit("executor_task", context_id)
WorkerEmit(w) ==
    /\ ret.workers[w].pc = "emit"
    /\ ret' = [ret EXCEPT !.emitted = Append(@, ret.workers[w].task),
                          !.workers[w] = [pc |-> "recv", task |-> 0]]
    /\ UNCHANGED th
    /\ ImportUnchanged

NextExec ==
    \/ \E t \in Threads : Submit(t)
    \/ \E t \in Threads : SubmitTrySend(t)
    \/ \E t \in Threads : Shutdown(t)
    \/ \E t \in Threads : ShutdownSend(t)
    \/ \E w \in Workers : WorkerRecv(w)
    \/ \E w \in Workers : WorkerEmit(w)

SpecExec == InitExec /\ [][NextExec]_vars

\* the task is in the queue behind a Stop message
BehindStop(task) ==
    \E i, j \in 1..Len(ret.queue) :
       i < j /\ ret.queue[i] = Stop /\ ret.queue[j] = Run(task)
TimesEmitted(task) == Cardinality({k \in 1..Len(ret.emitted) : ret.emitted[k] = task})

\* C39: a task whose submit returned Ok(true) is never in the queue behind
\* a Stop message, is emitted at most once, and has been emitted by the time
\* the last worker has left its loop, whatever the interleaving of the
\* submit and shutdown calls.
C39_AcceptedTaskEmittedOnce ==
    \A task \in TaskIds :
       ret.result[task] = "Ok"
          => /\ ~BehindStop(task)
             /\ TimesEmitted(task) <= 1
             /\ Disconnected => TimesEmitted(task) = 1
====
